---------------------------- MODULE Spec2Model ----------------------------
(***************************************************************************)
(* ComputoPermutoBook build scripts: the example validator and packager    *)
(* of scripts/generate_book_chapter.py (BookChapterGenerator) and the      *)
(* build orchestrator of scripts/build_all_chapters.py (BookBuilder,       *)
(* main).                                                                  *)
(*                                                                         *)
(* Text is a sequence of one-character strings or lexemes, so that         *)
(* sorting, stripping, slugging and parsing are computed, not assumed.     *)
(* A JSON/TOML document is a record [k |-> kind, v |-> payload]:           *)
(*   null  v = 0            bool  v \in {0,1}  (Python bool is an int)      *)
(*   int   v \in Int        str   v = a string                             *)
(*   arr   v = sequence of documents                                       *)
(*   obj   v = sequence of <<key, document>> in insertion order            *)
(*   text  v = lexemes: a string given by the text it holds                *)
(***************************************************************************)
EXTENDS Integers, Sequences, FiniteSets, TLC

VARIABLES
    source_dir,      \* names of the files present in the source directory
    validate,        \* args.validate
    html,            \* args.html and not args.no_html
    html_rc,         \* exit code the hypertext process will return
    fault,           \* the I/O fault the environment injects: <<>> or <<file, step>>
    pc,              \* position in build_all_chapters.main
    chapter_files,   \* BookBuilder.chapter_files
    cur,             \* index of the unit generate_all_chapters is processing
    upc,             \* position in generate_single_chapter for that unit
    example_results, \* generator.example_results of the current unit
    unit_success,    \* local `success` of generate_single_chapter
    results,         \* the list generate_all_chapters returns
    success,         \* local `success` of main ("unset" before assignment)
    exit_code,       \* what main returns (-1 while running)
    dirs,            \* directories existing below the output directory
    files,           \* files existing below the output directory
    zips,            \* archive path -> set of member names
    tmpfiles,        \* temporary files existing in the temp directory
    log,             \* the external effects performed so far, in order
    v_example,       \* validator harness: the example validated
    v_run,           \* validator harness: what the interpreter does
    v_out,           \* validator harness: what _validate_example produced
    v_pkg,           \* validator harness: what packaging the example produced
    v_proc,          \* validator harness: the interpreter process of the example
    s_results,       \* summary harness: the list given to create_build_summary
    s_out,           \* summary harness: what create_build_summary produced
    r_results,       \* report harness: example_results given to generate_test_report
    r_out,           \* report harness: what generate_test_report wrote
    first,           \* rebuild: <<>>, or <<the files and archives the first run left>>
    generate_examples \* single-chapter entry point: args.generate_examples

vars == <<source_dir, validate, html, html_rc, fault, pc, chapter_files, cur,
          upc, example_results, unit_success, results, success, exit_code,
          dirs, files, zips, tmpfiles, log, v_example, v_run, v_out, v_pkg,
          v_proc, s_results, s_out, r_results, r_out, first, generate_examples>>

buildVars == <<source_dir, validate, html, html_rc, fault, pc, chapter_files,
               cur, upc, example_results, unit_success, results, success,
               exit_code, dirs, files, zips, tmpfiles, log>>

validatorVars == <<v_example, v_run, v_out, v_pkg, v_proc>>

summaryVars == <<s_results, s_out, r_results, r_out>>

\* what only the rebuild and the single-chapter entry point change
entryVars == <<first, generate_examples>>

\* everything build_all_chapters.main leaves alone
harnessVars == <<v_example, v_run, v_out, v_pkg, v_proc, s_results, s_out, r_results,
                 r_out, first, generate_examples>>

-----------------------------------------------------------------------------
(* Sequence helpers *)

Range(s) == { s[i] : i \in 1..Len(s) }

RECURSIVE SeqOfSet(_)
\* some enumeration of a finite set (used only where order is irrelevant)
SeqOfSet(S) ==
    IF S = {} THEN <<>>
    ELSE LET x == CHOOSE y \in S : TRUE IN <<x>> \o SeqOfSet(S \ {x})

-----------------------------------------------------------------------------
(* Documents *)

Null     == [k |-> "null", v |-> 0]
Bool(b)  == [k |-> "bool", v |-> IF b THEN 1 ELSE 0]
Int_(n)  == [k |-> "int",  v |-> n]
Str(s)   == [k |-> "str",  v |-> s]
Arr(s)   == [k |-> "arr",  v |-> s]
Obj(s)   == [k |-> "obj",  v |-> s]

IsNumber(d) == d.k \in {"bool", "int"}

ObjKeys(d) == { d.v[i][1] : i \in 1..Len(d.v) }

ObjGet(d, key) == LET i == CHOOSE j \in 1..Len(d.v) : d.v[j][1] = key IN d.v[i][2]

\* dict[key] = val: an existing key keeps its position, a new key is appended
DictSet(pairs, key, val) ==
    IF \E i \in 1..Len(pairs) : pairs[i][1] = key
    THEN [i \in 1..Len(pairs) |->
            IF pairs[i][1] = key THEN <<key, val>> ELSE pairs[i]]
    ELSE Append(pairs, <<key, val>>)

RECURSIVE PyEq(_, _)
\* Python's == on the values json.loads / tomli.load produce
PyEq(a, b) ==
    IF IsNumber(a) /\ IsNumber(b) THEN a.v = b.v
    ELSE IF a.k # b.k THEN FALSE
    ELSE IF a.k = "null" THEN TRUE
    ELSE IF a.k = "str" THEN a.v = b.v
    ELSE IF a.k = "arr" THEN
        /\ Len(a.v) = Len(b.v)
        /\ \A i \in 1..Len(a.v) : PyEq(a.v[i], b.v[i])
    ELSE
        /\ ObjKeys(a) = ObjKeys(b)
        /\ \A key \in ObjKeys(a) : PyEq(ObjGet(a, key), ObjGet(b, key))

\* len(x): -1 stands for the TypeError of an unsized value
PyLen(d) ==
    IF d.k \in {"arr", "obj"} THEN Len(d.v)
    ELSE IF d.k = "str" THEN (IF d.v = "" THEN 0 ELSE 1)
    ELSE -1

-----------------------------------------------------------------------------
(* Text of the interpreter's standard output: a sequence of lexemes *)

Whitespace == {" ", "\n"}

RECURSIVE LStrip(_)
LStrip(t) ==
    IF t # <<>> /\ Head(t) \in Whitespace THEN LStrip(Tail(t)) ELSE t

RECURSIVE RStrip(_)
RStrip(t) ==
    IF t # <<>> /\ t[Len(t)] \in Whitespace
    THEN RStrip(SubSeq(t, 1, Len(t) - 1))
    ELSE t

\* str.strip()
Strip(t) == RStrip(LStrip(t))

StringToks == {"\"a\"", "\"b\""}
ScalarToks == {"null", "true", "false", "0", "1", "2", "3"} \cup StringToks

ScalarOf(tok) ==
    CASE tok = "null"  -> Null
      [] tok = "true"  -> Bool(TRUE)
      [] tok = "false" -> Bool(FALSE)
      [] tok = "0"     -> Int_(0)
      [] tok = "1"     -> Int_(1)
      [] tok = "2"     -> Int_(2)
      [] tok = "3"     -> Int_(3)
      [] tok = "\"a\"" -> Str("a")
      [] tok = "\"b\"" -> Str("b")

KeyOf(tok) == ScalarOf(tok).v

ParseFail == [ok |-> FALSE, doc |-> Null, next |-> 0]

RECURSIVE ParseValue(_, _), ParseElems(_, _, _), ParseMembers(_, _, _)
\* one JSON value starting at lexeme i; next is the first lexeme after it
ParseValue(t, i) ==
    IF i > Len(t) THEN ParseFail
    ELSE IF t[i] \in ScalarToks
        THEN [ok |-> TRUE, doc |-> ScalarOf(t[i]), next |-> i + 1]
    ELSE IF t[i] = "[" THEN
        IF i + 1 <= Len(t) /\ t[i + 1] = "]"
        THEN [ok |-> TRUE, doc |-> Arr(<<>>), next |-> i + 2]
        ELSE ParseElems(t, i + 1, <<>>)
    ELSE IF t[i] = "{" THEN
        IF i + 1 <= Len(t) /\ t[i + 1] = "}"
        THEN [ok |-> TRUE, doc |-> Obj(<<>>), next |-> i + 2]
        ELSE ParseMembers(t, i + 1, <<>>)
    ELSE ParseFail

ParseElems(t, i, acc) ==
    LET r == ParseValue(t, i) IN
    IF ~r.ok \/ r.next > Len(t) THEN ParseFail
    ELSE IF t[r.next] = "," THEN ParseElems(t, r.next + 1, Append(acc, r.doc))
    ELSE IF t[r.next] = "]"
        THEN [ok |-> TRUE, doc |-> Arr(Append(acc, r.doc)), next |-> r.next + 1]
    ELSE ParseFail

ParseMembers(t, i, acc) ==
    IF i + 1 > Len(t) \/ t[i] \notin StringToks \/ t[i + 1] # ":" THEN ParseFail
    ELSE
        LET r == ParseValue(t, i + 2) IN
        IF ~r.ok \/ r.next > Len(t) THEN ParseFail
        ELSE IF t[r.next] = ","
            THEN ParseMembers(t, r.next + 1, DictSet(acc, KeyOf(t[i]), r.doc))
        ELSE IF t[r.next] = "}"
            THEN [ok |-> TRUE, doc |-> Obj(DictSet(acc, KeyOf(t[i]), r.doc)),
                  next |-> r.next + 1]
        ELSE ParseFail

\* json.loads: whitespace between lexemes is insignificant, trailing data is
\* an error (JSONDecodeError is ok = FALSE)
JsonLoads(t) ==
    LET lex == SelectSeq(t, LAMBDA tok : tok \notin Whitespace)
        r   == ParseValue(lex, 1)
    IN  IF r.ok /\ r.next = Len(lex) + 1
        THEN [ok |-> TRUE, doc |-> r.doc]
        ELSE [ok |-> FALSE, doc |-> Null]

-----------------------------------------------------------------------------
(* BookChapterGenerator._validate_example *)

\* an example is a record
\*   name, section ("" when absent), has_script, script, has_input, input,
\*   has_expected, expected, cli_flags (<<>> when absent)
\* a run of the interpreter is a record
\*   kind \in {"notfound", "timeout", "exit"}, returncode, stdout, stderr

RcStr(rc) == CASE rc = 0 -> "0" [] rc = 1 -> "1" [] rc = 2 -> "2"

\* example.get('input', {})
InputData(example) == IF example.has_input THEN example.input ELSE Obj(<<>>)

\* has_input taken from the presence of the `input` key
HasInputIfPresent(example) == IF example.has_input THEN "yes" ELSE "no"

\* has_input = len(input_data) > 0; "TypeError" when len() is undefined
HasInput(example) ==
    LET n == PyLen(InputData(example)) IN
    IF n < 0 THEN "TypeError" ELSE IF n > 0 THEN "yes" ELSE "no"

TmpScript == "tmp_script.json"
TmpInput  == "tmp_input.json"

\* cmd = [computo_path] + cli_flags + [script_path] + [input_path]
Cmd(example) ==
    <<"computo">> \o example.cli_flags \o <<TmpScript>>
        \o (IF HasInput(example) = "yes" THEN <<TmpInput>> ELSE <<>>)

Unexpected(msg) ==
    [success |-> FALSE, error |-> <<"Unexpected error: ", msg>>]

\* the temporary files NamedTemporaryFile(delete=False) has created by then
CreatedTmp(example) ==
    {"script"} \cup (IF example.has_script /\ HasInput(example) = "yes"
                     THEN {"input"} ELSE {})

\* Classify with the output compared before the exit code is looked at
ClassifyOutputFirst(example, run) ==
    LET parsed == JsonLoads(Strip(run.stdout)) IN
    IF parsed.ok /\ example.has_expected /\ PyEq(parsed.doc, example.expected) THEN
        [success |-> TRUE,
         output  |-> parsed.doc,
         stderr  |-> run.stderr,
         stdout  |-> run.stdout]
    ELSE IF run.returncode # 0 THEN
        [success |-> FALSE,
         error   |-> <<"Computo returned error code ", RcStr(run.returncode)>>,
         stderr  |-> run.stderr,
         stdout  |-> run.stdout,
         command |-> Cmd(example)]
    ELSE IF ~parsed.ok THEN
        [success    |-> FALSE,
         error      |-> <<"Failed to parse Computo output as JSON: ", "JSONDecodeError">>,
         raw_output |-> run.stdout,
         stderr     |-> run.stderr,
         command    |-> Cmd(example)]
    ELSE IF ~example.has_expected THEN Unexpected("'expected'")
    ELSE
        [success  |-> FALSE,
         error    |-> <<"Output mismatch">>,
         expected |-> example.expected,
         actual   |-> parsed.doc,
         stderr   |-> run.stderr,
         stdout   |-> run.stdout]

\* what the code after subprocess.run returns (lines 83-120)
Classify(example, run) ==
    IF run.returncode # 0 THEN
        [success |-> FALSE,
         error   |-> <<"Computo returned error code ", RcStr(run.returncode)>>,
         stderr  |-> run.stderr,
         stdout  |-> run.stdout,
         command |-> Cmd(example)]
    ELSE
        LET parsed == JsonLoads(Strip(run.stdout)) IN
        IF ~parsed.ok THEN
            [success    |-> FALSE,
             error      |-> <<"Failed to parse Computo output as JSON: ", "JSONDecodeError">>,
             raw_output |-> run.stdout,
             stderr     |-> run.stderr,
             command    |-> Cmd(example)]
        ELSE IF ~example.has_expected THEN Unexpected("'expected'")
        ELSE IF PyEq(parsed.doc, example.expected) THEN
            [success |-> TRUE,
             output  |-> parsed.doc,
             stderr  |-> run.stderr,
             stdout  |-> run.stdout]
        ELSE
            [success  |-> FALSE,
             error    |-> <<"Output mismatch">>,
             expected |-> example.expected,
             actual   |-> parsed.doc,
             stderr   |-> run.stderr,
             stdout   |-> run.stdout]

\* _validate_example without its two except clauses: a timeout or a failure
\* to start the interpreter escapes to the caller
ValidateExampleRaising(example, run) ==
    IF ~example.has_script THEN
        [result |-> Unexpected("'script'"), left |-> {"script"}, raised |-> FALSE]
    ELSE IF HasInput(example) = "TypeError" THEN
        [result |-> Unexpected("object has no len()"), left |-> {"script"},
         raised |-> FALSE]
    ELSE IF run.kind \in {"notfound", "timeout"} THEN
        [result |-> Unexpected("raised"), left |-> CreatedTmp(example),
         raised |-> TRUE]
    ELSE
        [result |-> Classify(example, run), left |-> {}, raised |-> FALSE]

\* the whole of _validate_example: the result it returns, the temporary files
\* it leaves behind, and whether an exception escapes it
ValidateExample(example, run) ==
    IF ~example.has_script THEN
        [result |-> Unexpected("'script'"), left |-> {"script"}, raised |-> FALSE]
    ELSE IF HasInput(example) = "TypeError" THEN
        [result |-> Unexpected("object has no len()"), left |-> {"script"},
         raised |-> FALSE]
    ELSE IF run.kind = "notfound" THEN
        [result |-> Unexpected("No such file or directory: 'computo'"),
         left |-> CreatedTmp(example), raised |-> FALSE]
    ELSE IF run.kind = "timeout" THEN
        [result |-> [success |-> FALSE,
                     error |-> <<"Computo execution timed out after 30 seconds">>],
         left |-> CreatedTmp(example), raised |-> FALSE]
    ELSE
        [result |-> Classify(example, run), left |-> {}, raised |-> FALSE]

TimeoutSeconds == 30

\* subprocess.run(cmd, capture_output=True, text=True, timeout=30) on an
\* interpreter that is found and would take `duration` seconds: what it
\* returns, or the TimeoutExpired it raises
SubprocessRun(duration, rc, stdout, stderr) ==
    IF duration > TimeoutSeconds
    THEN [kind |-> "timeout", returncode |-> 0, stdout |-> <<>>, stderr |-> ""]
    ELSE [kind |-> "exit", returncode |-> rc, stdout |-> stdout, stderr |-> stderr]

\* the interpreter process left to itself when the time is up
ProcessAfterNoKill(example, run) ==
    IF ~example.has_script \/ HasInput(example) = "TypeError" \/ run.kind = "notfound"
    THEN "none"
    ELSE IF run.kind = "timeout" THEN "running"
    ELSE "exited"

\* the interpreter process once _validate_example has returned: never
\* started, exited by itself, or killed and reaped by subprocess.run before
\* it raises TimeoutExpired
ProcessAfter(example, run) ==
    IF ~example.has_script \/ HasInput(example) = "TypeError" \/ run.kind = "notfound"
    THEN "none"
    ELSE IF run.kind = "timeout" THEN "killed"
    ELSE "exited"

-----------------------------------------------------------------------------
(* One example's files: save_examples_organized (lines 518-564) and          *)
(* _create_cli_scripts                                                      *)

\* a script is a document, or [k |-> "text", v |-> lexemes]: a string holding
\* that text
IsString(d) == d.k \in {"str", "text"}

\* the text a string holds, as lexemes
TextOf(d) == IF d.k = "text" THEN d.v ELSE <<d.v>>

\* lines 524-534: the content put under 'script.json'
PackagedScript(example) ==
    IF IsString(example.script) THEN
        LET parsed == JsonLoads(TextOf(example.script)) IN
        IF parsed.ok THEN parsed.doc ELSE example.script
    ELSE example.script

\* line 55: the content json.dump writes to the temporary script file
ValidatedScript(example) == example.script

\* ' '.join(words)
RECURSIVE Join(_)
Join(words) ==
    IF words = <<>> THEN <<>>
    ELSE IF Len(words) = 1 THEN words
    ELSE <<Head(words), " ">> \o Join(Tail(words))

\* _create_cli_scripts, lines 423-430: command_str
CommandStr(example) ==
    LET cli_flags == example.cli_flags
        flags_str == IF cli_flags # <<>> THEN Join(cli_flags) ELSE <<>>
        input_arg == IF HasInput(example) = "yes" THEN <<"input.json">> ELSE <<>>
    IN  Strip(<<"computo", " ">> \o flags_str \o <<" ", "script.json", " ">>
                \o input_arg)

\* run.sh (lines 433-452)
RunSh(example) ==
    [name |-> example.name, echoed |-> CommandStr(example),
     command |-> CommandStr(example), shown |-> "cat expected.json"]

\* run.bat (lines 455-474)
RunBat(example) ==
    [name |-> example.name, echoed |-> CommandStr(example),
     command |-> CommandStr(example), shown |-> "type expected.json"]

\* lines 518-564 for one example of chapter u: the content of each file of
\* the example's directory, or the exception raised
ExampleFiles(u, example) ==
    IF ~example.has_expected THEN [error |-> <<"'expected'">>]
    ELSE IF ~example.has_script THEN [error |-> <<"'script'">>]
    ELSE IF HasInput(example) = "TypeError" THEN [error |-> <<"object has no len()">>]
    ELSE IF u.is_appendix THEN
        [error |-> <<"local variable 'chapter_num' referenced before assignment">>]
    ELSE
        [error    |-> <<>>,
         expected |-> example.expected,
         script   |-> PackagedScript(example),
         input    |-> IF HasInput(example) = "yes" THEN <<example.input>> ELSE <<>>,
         metadata |-> [name          |-> example.name,
                       section       |-> example.section,
                       cli_flags     |-> example.cli_flags,
                       chapter       |-> u.number,
                       chapter_title |-> u.title],
         run_sh   |-> RunSh(example),
         run_bat  |-> RunBat(example)]

-----------------------------------------------------------------------------
(* Validator harness: one example, one interpreter run *)

MaxLen == 2

Scalars == {Null, Bool(TRUE), Bool(FALSE), Int_(0), Int_(1), Str("a")}

Keys == {"a", "b"}

SeqsUpTo(S, n) == UNION { [1..m -> S] : m \in 0..n }

\* objects list each key at most once
Members(n) ==
    { s \in SeqsUpTo(Keys \X Scalars, n) :
        \A i, j \in 1..Len(s) : i # j => s[i][1] # s[j][1] }

Nested ==
    { Arr(<<Arr(<<Int_(1)>>), Bool(TRUE)>>),
      Arr(<<Arr(<<Bool(TRUE)>>), Int_(1)>>),
      Obj(<< <<"a", Arr(<<Int_(1), Int_(0)>>)>> >>),
      Obj(<< <<"a", Arr(<<Int_(0), Int_(1)>>)>> >>),
      Obj(<< <<"b", Obj(<< <<"a", Bool(FALSE)>> >>)>> >>) }

Docs ==
    Scalars \cup { Arr(s) : s \in SeqsUpTo(Scalars, MaxLen) }
            \cup { Obj(s) : s \in Members(MaxLen) }
            \cup Nested

KeyTok(key) == IF key = "a" THEN "\"a\"" ELSE "\"b\""

ScalarTok(d) ==
    CASE d.k = "null" -> "null"
      [] d.k = "bool" -> (IF d.v = 1 THEN "true" ELSE "false")
      [] d.k = "int"  -> (CASE d.v = 0 -> "0" [] d.v = 1 -> "1"
                            [] d.v = 2 -> "2" [] d.v = 3 -> "3")
      [] d.k = "str"  -> KeyTok(d.v)

RECURSIVE Dumps(_), DumpsElems(_), DumpsMembers(_)
\* the text the interpreter prints for a document
Dumps(d) ==
    IF d.k = "arr" THEN <<"[">> \o DumpsElems(d.v) \o <<"]">>
    ELSE IF d.k = "obj" THEN <<"{">> \o DumpsMembers(d.v) \o <<"}">>
    ELSE <<ScalarTok(d)>>

DumpsElems(s) ==
    IF s = <<>> THEN <<>>
    ELSE Dumps(Head(s)) \o (IF Len(s) > 1 THEN <<",", " ">> ELSE <<>>)
             \o DumpsElems(Tail(s))

DumpsMembers(s) ==
    IF s = <<>> THEN <<>>
    ELSE <<KeyTok(Head(s)[1]), ":", " ">> \o Dumps(Head(s)[2])
             \o (IF Len(s) > 1 THEN <<",", " ">> ELSE <<>>)
             \o DumpsMembers(Tail(s))

\* what print() of the interpreter puts on stdout for document d
Printed(d) == Dumps(d) \o <<"\n">>

Garbage ==
    { <<>>, <<"\n">>, <<"oops", "\n">>, <<"[", "1">>, <<"1", " ", "2", "\n">>,
      <<"{", "\"a\"", "}">>, <<"[", "1", ",", "]">>, <<"{", "1", ":", "1", "}">> }

SmallDocs == { Int_(1), Bool(TRUE), Arr(<<Int_(1), Int_(0)>>) }

InputVariants ==
    { [has_input |-> FALSE, input |-> Null],
      [has_input |-> TRUE,  input |-> Obj(<<>>)],
      [has_input |-> TRUE,  input |-> Obj(<< <<"a", Int_(1)>> >>)],
      [has_input |-> TRUE,  input |-> Int_(1)] }

FlagVariants == { <<>>, <<"--pretty=2">> }

MkExample(name, has_script, inp, has_expected, expected, flags) ==
    [name         |-> name,
     section      |-> <<>>,
     has_script   |-> has_script,
     script       |-> Arr(<<Str("a"), Int_(1)>>),
     has_input    |-> inp.has_input,
     input        |-> inp.input,
     has_expected |-> has_expected,
     expected     |-> IF has_expected THEN expected ELSE Null,
     cli_flags    |-> flags]

MkRun(kind, rc, stdout, stderr) ==
    [kind |-> kind, returncode |-> rc, stdout |-> stdout, stderr |-> stderr]

\* the outputs tried: <<document printed (or none), text on stdout>>
Outputs(D) ==
    { << <<d>>, Printed(d) >> : d \in D } \cup { << <<>>, g >> : g \in Garbage }

NoExample == MkExample(<<>>, FALSE, [has_input |-> FALSE, input |-> Null], FALSE, Null, <<>>)
NoRun     == MkRun("none", 0, <<>>, "")

BuildIdle ==
    /\ source_dir = {} /\ validate = FALSE /\ html = FALSE /\ html_rc = -1
    /\ fault = <<>> /\ pc = "idle" /\ chapter_files = <<>> /\ cur = 0
    /\ upc = "idle" /\ example_results = <<>> /\ unit_success = TRUE
    /\ results = <<>> /\ success = "unset" /\ exit_code = -1
    /\ dirs = {} /\ files = {} /\ zips = {} /\ tmpfiles = {} /\ log = <<>>
    /\ first = <<>> /\ generate_examples = FALSE

\* wide documents on the plain path
InitDocsV ==
    /\ \E e \in Docs, o \in Outputs(Docs) :
        /\ v_example = MkExample(<<"e", "x">>, TRUE, [has_input |-> FALSE, input |-> Null],
                                 TRUE, e, <<>>)
        /\ v_run = [run |-> MkRun("exit", 0, o[2], ""), printed |-> o[1]]

\* every shape of example and run on a few documents
InitShapesV ==
    /\ \E hs \in BOOLEAN, inp \in InputVariants, he \in BOOLEAN, e \in SmallDocs,
          fl \in FlagVariants, o \in Outputs(SmallDocs),
          kind \in {"notfound", "timeout", "exit"}, rc \in 0..2,
          err \in {"", "unknown operator"} :
        /\ kind # "exit" => rc = 0 /\ err = ""
        /\ v_example = MkExample(<<"e", "x">>, hs, inp, he, e, fl)
        /\ v_run = [run |-> MkRun(kind, rc, o[2], err), printed |-> o[1]]

SummaryIdle ==
    /\ s_results = <<>> /\ s_out = <<>>
    /\ r_results = <<>> /\ r_out = <<>>

\* the forms a script takes in a unit file: a structured document, a string
\* holding the JSON text of one, a string that is no JSON text
ScriptVariants ==
    { Arr(<<Str("a"), Int_(1)>>),
      [k |-> "text", v |-> <<"[", "\"a\"", ",", " ", "1", "]">>],
      [k |-> "text", v |-> <<"{", "\"b\"", ":", " ", "[", "2", "]", "}", "\n">>],
      [k |-> "text", v |-> <<"[", "1">>],
      Str("a") }

\* every form of script on the plain path
InitScriptsV ==
    /\ \E sc \in ScriptVariants, inp \in InputVariants, fl \in FlagVariants,
          rc \in {0, 1} :
        /\ v_example = [MkExample(<<"e", "x">>, TRUE, inp, TRUE, Int_(1), fl)
                            EXCEPT !.script = sc]
        /\ v_run = [run |-> MkRun("exit", rc, Printed(Int_(1)), ""),
                    printed |-> <<Int_(1)>>]

\* how long the interpreter takes, in seconds
Durations == {0, 29, 30, 31, 3600}

\* every shape of example on an interpreter that takes its time
InitTimedV ==
    /\ \E d \in Durations, hs \in BOOLEAN, inp \in InputVariants, he \in BOOLEAN,
          fl \in FlagVariants, o \in Outputs({Int_(1)}), rc \in 0..1 :
        /\ v_example = MkExample(<<"e", "x">>, hs, inp, he, Int_(1), fl)
        /\ v_run = [run      |-> SubprocessRun(d, rc, o[2], ""),
                    printed  |-> o[1],
                    duration |-> d]

\* a unit file as loaded
MkUnit(loads, has_chapter, is_appendix, number, letter, title, has_examples, examples) ==
    [loads        |-> loads,
     has_chapter  |-> has_chapter,
     is_appendix  |-> is_appendix,
     number       |-> number,
     letter       |-> letter,
     title        |-> title,
     has_examples |-> has_examples,
     examples     |-> examples]

\* the chapter the harness packages its example for
HarnessUnit ==
    MkUnit(TRUE, TRUE, FALSE, 1, <<>>, <<"I", "n", "t", "r", "o">>, TRUE, <<>>)

InitV ==
    /\ BuildIdle
    /\ SummaryIdle
    /\ v_out = <<>>
    /\ v_pkg = <<>>
    /\ v_proc = "none"
    /\ (InitDocsV \/ InitShapesV \/ InitScriptsV \/ InitTimedV)

VValidate ==
    /\ pc = "idle"
    /\ v_out = <<>>
    /\ v_out' = <<ValidateExample(v_example, v_run.run)>>
    /\ v_proc' = ProcessAfter(v_example, v_run.run)
    /\ UNCHANGED <<v_example, v_run, v_pkg>>
    /\ UNCHANGED summaryVars
    /\ UNCHANGED buildVars
    /\ UNCHANGED entryVars

VPackage ==
    /\ pc = "idle"
    /\ v_pkg = <<>>
    /\ v_pkg' = <<ExampleFiles(HarnessUnit, v_example)>>
    /\ UNCHANGED <<v_example, v_run, v_out, v_proc>>
    /\ UNCHANGED summaryVars
    /\ UNCHANGED buildVars
    /\ UNCHANGED entryVars

NextV == VValidate \/ VPackage

SpecV == InitV /\ [][NextV]_vars

-----------------------------------------------------------------------------
(* Properties of the validator *)

\* which of the outcomes a result dictionary is, read off its error text
Outcome(r) ==
    IF r.success THEN "Success"
    ELSE IF r.error[1] = "Computo returned error code " THEN "ProcessFailure"
    ELSE IF r.error[1] = "Computo execution timed out after 30 seconds" THEN "Timeout"
    ELSE IF r.error[1] = "Failed to parse Computo output as JSON: " THEN "ParseFailure"
    ELSE IF r.error[1] = "Output mismatch" THEN "Mismatch"
    ELSE "Other"

\* the interpreter was started: subprocess.run was reached and found the program
Invoked(example, run) ==
    /\ example.has_script
    /\ HasInput(example) # "TypeError"
    /\ run.kind \in {"timeout", "exit"}

RECURSIVE StructEq(_, _)
\* structural equality of documents: same kind, members recursively equal,
\* member order of objects ignored, element order of arrays significant
StructEq(a, b) ==
    /\ a.k = b.k
    /\ IF a.k = "arr" THEN
            /\ Len(a.v) = Len(b.v)
            /\ \A i \in 1..Len(a.v) : StructEq(a.v[i], b.v[i])
       ELSE IF a.k = "obj" THEN
            /\ ObjKeys(a) = ObjKeys(b)
            /\ \A key \in ObjKeys(a) : StructEq(ObjGet(a, key), ObjGet(b, key))
       ELSE a.v = b.v

\* C1: whenever the interpreter was invoked, the result is chosen in priority
\* order: timeout -> Timeout; else non-zero exit -> ProcessFailure with the
\* exit code and the captured streams (whatever stdout holds); else stdout that
\* is no document -> ParseFailure with the raw text; else, for an example with
\* an expected document, a printed document that differs from it under both
\* readings of equality -> Mismatch with both values, and one structurally
\* equal to it -> Success with the parsed output.  (Which documents count as
\* equal is C2's subject.)
C1_PriorityOrder ==
    (v_out # <<>> /\ Invoked(v_example, v_run.run)) =>
        LET r   == v_out[1].result
            run == v_run.run
        IN  IF run.kind = "timeout" THEN Outcome(r) = "Timeout"
            ELSE IF run.returncode # 0 THEN
                /\ Outcome(r) = "ProcessFailure"
                /\ r.error[2] = RcStr(run.returncode)
                /\ r.stdout = run.stdout
                /\ r.stderr = run.stderr
            ELSE IF v_run.printed = <<>> THEN
                /\ Outcome(r) = "ParseFailure"
                /\ r.raw_output = run.stdout
            ELSE v_example.has_expected =>
                /\ Outcome(r) \in {"Success", "Mismatch"}
                /\ StructEq(v_run.printed[1], v_example.expected) =>
                        /\ Outcome(r) = "Success"
                        /\ r.output = v_run.printed[1]
                /\ ~PyEq(v_run.printed[1], v_example.expected) =>
                        /\ Outcome(r) = "Mismatch"
                        /\ r.expected = v_example.expected
                        /\ r.actual = v_run.printed[1]

\* the interpreter printed exactly the expected document and exited non-zero
C1_Witness ==
    /\ v_out # <<>>
    /\ Invoked(v_example, v_run.run)
    /\ v_run.run.kind = "exit"
    /\ v_run.run.returncode = 2
    /\ v_example.has_expected
    /\ v_run.printed = <<v_example.expected>>
    /\ Outcome(v_out[1].result) = "ProcessFailure"

\* C2: for an example with an expected output whose run exits 0 and prints a
\* document, validation succeeds iff that document is structurally equal to
\* the expected one (true is not 1, [1,2] is not [2,1], member order of
\* objects is ignored).
C2_StructuralEquality ==
    ( /\ v_out # <<>>
      /\ Invoked(v_example, v_run.run)
      /\ v_run.run.kind = "exit"
      /\ v_run.run.returncode = 0
      /\ v_run.printed # <<>>
      /\ v_example.has_expected ) =>
        (v_out[1].result.success <=> StructEq(v_run.printed[1], v_example.expected))

FiveOutcomes == {"Success", "ProcessFailure", "Timeout", "ParseFailure", "Mismatch"}

\* C11: every validation ends in exactly one of the five outcomes Success,
\* ProcessFailure, Timeout, ParseFailure, Mismatch, also when the interpreter
\* cannot be started or the example lacks a field.
C11_FiveOutcomes ==
    v_out # <<>> => Outcome(v_out[1].result) \in FiveOutcomes

\* the example has an input document with at least one member, element or
\* character
InputNonEmpty(e) ==
    /\ e.has_input
    /\ CASE e.input.k \in {"arr", "obj"} -> e.input.v # <<>>
         [] e.input.k = "str"            -> e.input.v # ""
         [] OTHER                        -> FALSE

\* the words a shell splits a command line into
ShellWords(cmd) == SelectSeq(cmd, LAMBDA w : w \notin Whitespace)

\* the invocation `computo [flags...] script [input]` with the given file names
Invocation(e, script_name, input_name) ==
    <<"computo">> \o e.cli_flags \o <<script_name>>
        \o (IF InputNonEmpty(e) THEN <<input_name>> ELSE <<>>)

\* C14: the interpreter is invoked with an input-file argument iff the
\* example's input document is non-empty; an input file is packaged iff the
\* input is non-empty; the POSIX and the Windows runner contain the same
\* command: the flags in order, the script file, and the input file iff the
\* input is non-empty.
C14_InputFileAgreement ==
    /\ (v_out # <<>> /\ Invoked(v_example, v_run.run)) =>
        LET r == v_out[1].result IN
        /\ Cmd(v_example) = Invocation(v_example, TmpScript, TmpInput)
        /\ "command" \in DOMAIN r =>
                r.command = Invocation(v_example, TmpScript, TmpInput)
        /\ v_run.run.kind = "timeout" =>
                ("input" \in v_out[1].left <=> InputNonEmpty(v_example))
    /\ (v_pkg # <<>> /\ v_pkg[1].error = <<>>) =>
        LET f == v_pkg[1] IN
        /\ f.input # <<>> <=> InputNonEmpty(v_example)
        /\ f.input # <<>> => f.input[1] = v_example.input
        /\ f.run_sh.command = f.run_bat.command
        /\ f.run_sh.echoed = f.run_sh.command
        /\ f.run_bat.echoed = f.run_bat.command
        /\ ShellWords(f.run_sh.command) =
                Invocation(v_example, "script.json", "input.json")

\* an example with flags and a non-empty input, validated and packaged
C14_Witness ==
    /\ v_out # <<>> /\ v_pkg # <<>>
    /\ Invoked(v_example, v_run.run)
    /\ v_run.run.kind = "exit"
    /\ v_run.run.returncode = 1
    /\ v_pkg[1].error = <<>>
    /\ v_example.cli_flags # <<>>
    /\ InputNonEmpty(v_example)
    /\ v_pkg[1].input = <<v_example.input>>
    /\ v_out[1].result.command = <<"computo", "--pretty=2", TmpScript, TmpInput>>

\* C15: the script document the validator hands to the interpreter is the
\* document packaged as the example's script file, whether the script is
\* given as a structured document or as the text of one.
C15_SameScript ==
    ( /\ v_out # <<>> /\ Invoked(v_example, v_run.run)
      /\ v_pkg # <<>> /\ v_pkg[1].error = <<>> ) =>
        v_pkg[1].script = ValidatedScript(v_example)

-----------------------------------------------------------------------------
(* Names: a file name, title or identifier is a sequence of characters *)

Alphabet ==
    << " ", "-", ".", "0", "1", "2", "3", "4", "5", "6", "7", "8", "9", "?",
       "A", "B", "C", "D", "E", "F", "G", "H", "I", "J", "K", "L", "M",
       "N", "O", "P", "Q", "R", "S", "T", "U", "V", "W", "X", "Y", "Z", "_",
       "a", "b", "c", "d", "e", "f", "g", "h", "i", "j", "k", "l", "m",
       "n", "o", "p", "q", "r", "s", "t", "u", "v", "w", "x", "y", "z" >>

\* the rank of a character in code-point order
Ord(c) == CHOOSE i \in 1..Len(Alphabet) : Alphabet[i] = c

RECURSIVE LexLess(_, _)
\* a < b for strings (and for paths in one directory)
LexLess(a, b) ==
    IF b = <<>> THEN FALSE
    ELSE IF a = <<>> THEN TRUE
    ELSE IF Head(a) # Head(b) THEN Ord(Head(a)) < Ord(Head(b))
    ELSE LexLess(Tail(a), Tail(b))

RECURSIVE Sorted(_)
\* sorted(list(...)) of distinct names
Sorted(S) ==
    IF S = {} THEN <<>>
    ELSE LET m == CHOOSE x \in S : \A y \in S \ {x} : LexLess(x, y)
         IN  <<m>> \o Sorted(S \ {m})

StartsWith(t, pre) == Len(t) >= Len(pre) /\ SubSeq(t, 1, Len(pre)) = pre

EndsWith(t, suf) ==
    Len(t) >= Len(suf) /\ SubSeq(t, Len(t) - Len(suf) + 1, Len(t)) = suf

\* glob of the pattern <pre>*<suf>
Glob(S, pre, suf) ==
    { f \in S : StartsWith(f, pre) /\ EndsWith(f, suf)
                    /\ Len(f) >= Len(pre) + Len(suf) }

DotToml == <<".", "t", "o", "m", "l">>

\* Path.stem of a *.toml file
Stem(f) == SubSeq(f, 1, Len(f) - Len(DotToml))

Lower(c) ==
    IF Ord(c) >= Ord("A") /\ Ord(c) <= Ord("Z")
    THEN Alphabet[Ord(c) - Ord("A") + Ord("a")]
    ELSE c

\* title.lower().replace(' ', '_').replace('-', '_')
TitleSlug(title) ==
    [i \in 1..Len(title) |->
        IF title[i] \in {" ", "-"} THEN "_" ELSE Lower(title[i])]

DigitChar(d) == Alphabet[Ord("0") + d]

\* f"{n:02d}" for 0 <= n <= 99
TwoDigits(n) == <<DigitChar(n \div 10), DigitChar(n % 10)>>

-----------------------------------------------------------------------------
(* The source directory: the unit files a build may find *)

F_ch1        == <<"c", "h", "1", ".", "t", "o", "m", "l">>
F_ch2        == <<"c", "h", "2", ".", "t", "o", "m", "l">>
F_ch10       == <<"c", "h", "1", "0", ".", "t", "o", "m", "l">>
F_chbad      == <<"c", "h", "b", "a", "d", ".", "t", "o", "m", "l">>
F_appendix_a == <<"a", "p", "p", "e", "n", "d", "i", "x", "_", "a", ".", "t", "o", "m", "l">>
F_appendix_b == <<"a", "p", "p", "e", "n", "d", "i", "x", "_", "b", ".", "t", "o", "m", "l">>
F_notes      == <<"n", "o", "t", "e", "s", ".", "t", "o", "m", "l">>

Pool == {F_ch1, F_ch2, F_ch10, F_chbad, F_appendix_a, F_appendix_b, F_notes}

NoInput == [has_input |-> FALSE, input |-> Null]

E_add_two ==
    MkExample(<<"a", "d", "d", "_", "t", "w", "o">>, TRUE, NoInput, TRUE, Int_(3), <<>>)

E_with_input ==
    [MkExample(<<"w", "i", "t", "h", "_", "i", "n", "p", "u", "t">>, TRUE,
               [has_input |-> TRUE, input |-> Obj(<< <<"a", Int_(1)>> >>)],
               TRUE, Obj(<< <<"a", Int_(1)>>, <<"b", Bool(TRUE)>> >>),
               <<"--pretty=2">>)
        EXCEPT !.section = <<"b", "a", "s", "i", "c", "s">>]

E_no_expected ==
    MkExample(<<"n", "o", "_", "e", "x", "p", "e", "c", "t", "e", "d">>, TRUE, NoInput, FALSE, Null, <<>>)

E_lookup ==
    MkExample(<<"l", "o", "o", "k", "u", "p">>, TRUE, NoInput, TRUE, Arr(<<Int_(1), Int_(2)>>), <<>>)

E_koan ==
    MkExample(<<"K", "o", "a", "n", " ", "1">>, TRUE, NoInput, TRUE, Str("a"), <<>>)

\* tomli.load of each file
Content(f) ==
    CASE f = F_ch1  -> MkUnit(TRUE, TRUE, FALSE, 1, <<>>, <<"I", "n", "t", "r", "o">>, TRUE,
                              <<E_add_two, E_with_input>>)
      [] f = F_ch2  -> MkUnit(TRUE, TRUE, FALSE, 2, <<>>, <<"M", "a", "p", "-", "R", "e", "d", "u", "c", "e", " ", "T", "i", "p", "s">>, TRUE,
                              <<E_no_expected>>)
      [] f = F_ch10 -> MkUnit(TRUE, TRUE, FALSE, 10, <<>>,
                              <<"Z", "e", "n", " ", "-", " ", "K", "o", "a", "n", "s", "?">>, TRUE,
                              <<E_koan>>)
      [] f = F_appendix_a -> MkUnit(TRUE, FALSE, TRUE, 0, <<"A">>, <<"R", "e", "f">>, TRUE,
                              <<E_lookup>>)
      [] f = F_appendix_b -> MkUnit(TRUE, FALSE, TRUE, 0, <<"B">>, <<"N", "o", "t", "e", "s">>, FALSE, <<>>)
      [] OTHER -> MkUnit(FALSE, FALSE, FALSE, 0, <<>>, <<>>, FALSE, <<>>)

-----------------------------------------------------------------------------
(* Output paths: a path is a sequence of names below the output directory *)

N_code     == <<"c", "o", "d", "e">>
N_general  == <<"g", "e", "n", "e", "r", "a", "l">>
N_expected == <<"e", "x", "p", "e", "c", "t", "e", "d", ".", "j", "s", "o", "n">>
N_script   == <<"s", "c", "r", "i", "p", "t", ".", "j", "s", "o", "n">>
N_input    == <<"i", "n", "p", "u", "t", ".", "j", "s", "o", "n">>
N_metadata == <<"m", "e", "t", "a", "d", "a", "t", "a", ".", "j", "s", "o", "n">>
N_run_sh   == <<"r", "u", "n", ".", "s", "h">>
N_run_bat  == <<"r", "u", "n", ".", "b", "a", "t">>
N_readme   == <<"R", "E", "A", "D", "M", "E", ".", "m", "d">>
N_summary  == <<"b", "u", "i", "l", "d", "_", "s", "u", "m", "m", "a", "r", "y", ".", "m", "d">>
N_all_zip  == <<"d", "o", "w", "n", "l", "o", "a", "d", "_", "a", "l", "l", "_", "e", "x", "a", "m", "p", "l", "e", "s", ".", "z", "i", "p">>

RECURSIVE RemoveAll(_, _)
\* str.replace(pat, '')
RemoveAll(t, pat) ==
    IF t = <<>> THEN <<>>
    ELSE IF StartsWith(t, pat) THEN RemoveAll(SubSeq(t, Len(pat) + 1, Len(t)), pat)
    ELSE <<Head(t)>> \o RemoveAll(Tail(t), pat)

\* generate_test_report: output_dir / f"ch{number:02d}_test_report.md"
ReportPath(u) == << <<"c", "h">> \o TwoDigits(u.number) \o <<"_", "t", "e", "s", "t", "_", "r", "e", "p", "o", "r", "t", ".", "m", "d">> >>

\* generate_markdown: the text page's file name
MarkdownPath(f, u) ==
    IF u.is_appendix
    THEN << <<"a", "p", "p", "e", "n", "d", "i", "x", "_">> \o <<Lower(u.letter[1])>> \o <<"_">> \o TitleSlug(u.title)
                \o <<".", "m", "d">> >>
    ELSE << TwoDigits(u.number) \o <<"_">>
                \o RemoveAll(Stem(f), <<"c", "h">> \o TwoDigits(u.number) \o <<"_">>)
                \o <<".", "m", "d">> >>

\* save_examples_organized: dir_name
DirName(u) ==
    IF u.is_appendix
    THEN <<"a", "p", "p", "e", "n", "d", "i", "x", "_">> \o <<Lower(u.letter[1])>> \o <<"_">> \o TitleSlug(u.title)
    ELSE <<"c", "h">> \o TwoDigits(u.number) \o <<"_">> \o TitleSlug(u.title)

\* _create_chapter_zip: chapter_dir.parent / f"ch{number:02d}_examples.zip"
ZipPath(u) == << N_code, <<"c", "h">> \o TwoDigits(u.number) \o <<"_", "e", "x", "a", "m", "p", "l", "e", "s", ".", "z", "i", "p">> >>

\* example.get('section', 'general')
Section(e) == IF e.section = <<>> THEN N_general ELSE e.section

RECURSIVE SectionsOf(_, _)
\* the keys of examples_by_section, in order of first appearance
SectionsOf(exs, seen) ==
    IF exs = <<>> THEN seen
    ELSE SectionsOf(Tail(exs),
                    IF Section(Head(exs)) \in Range(seen) THEN seen
                    ELSE Append(seen, Section(Head(exs))))

RECURSIVE Concat(_)
Concat(ss) == IF ss = <<>> THEN <<>> ELSE Head(ss) \o Concat(Tail(ss))

\* the examples in the order the two nested packaging loops visit them
Grouped(exs) ==
    LET secs == SectionsOf(exs, <<>>) IN
    Concat([i \in 1..Len(secs) |->
                SelectSeq(exs, LAMBDA e : Section(e) = secs[i])])

ExampleDir(u, e) == << N_code, DirName(u), Section(e), e.name >>

\* one iteration of the inner packaging loop (lines 514-564); st.error is
\* <<>> or <<message of the exception raised>>
PackStep(u, e, st) ==
    IF st.error # <<>> THEN st
    ELSE
        LET ed    == ExampleDir(u, e)
            dirs1 == st.dirs \cup { SubSeq(ed, 1, 3), ed }
            core  == { Append(ed, N_expected), Append(ed, N_script) }
                        \cup (IF HasInput(e) = "yes" THEN { Append(ed, N_input) }
                              ELSE {})
            rest  == { Append(ed, N_metadata), Append(ed, N_run_sh),
                       Append(ed, N_run_bat) }
        IN  IF ~e.has_expected THEN
                [dirs |-> dirs1, files |-> st.files, error |-> <<"'expected'">>]
            ELSE IF ~e.has_script THEN
                [dirs |-> dirs1, files |-> st.files, error |-> <<"'script'">>]
            ELSE IF HasInput(e) = "TypeError" THEN
                [dirs |-> dirs1, files |-> st.files,
                 error |-> <<"object has no len()">>]
            ELSE IF u.is_appendix THEN
                [dirs |-> dirs1, files |-> st.files \cup core,
                 error |-> <<"local variable 'chapter_num' referenced before assignment">>]
            ELSE
                [dirs |-> dirs1, files |-> st.files \cup core \cup rest,
                 error |-> <<>>]

RECURSIVE PackAll(_, _, _)
PackAll(u, exs, st) ==
    IF exs = <<>> THEN st ELSE PackAll(u, Tail(exs), PackStep(u, Head(exs), st))

\* the files below directory d (rglob('*') filtered by is_file)
Below(fs, d) == { p \in fs : Len(p) > Len(d) /\ SubSeq(p, 1, Len(d)) = d }

\* every file beneath the parent directory is archived
ArchiveMembersOfParent(fs, cd) ==
    { Tail(p) : p \in Below(fs, SubSeq(cd, 1, Len(cd) - 1)) }

\* _create_chapter_zip, lines 671-675: the arc names, relative to
\* chapter_dir.parent
ArchiveMembers(fs, cd) == { Tail(p) : p \in Below(fs, cd) }

\* ZipFile(path, 'w'): a prior archive at the path is replaced
WriteZip(zs, path, members) ==
    { z \in zs : z.path # path } \cup { [path |-> path, members |-> members] }

\* save_examples_organized: the directories, files and archives afterwards
\* and the exception raised, if any
SaveExamplesOrganized(u, d0, f0, z0, io_fault) ==
    IF ~u.has_examples \/ u.examples = <<>> THEN
        [dirs |-> d0, files |-> f0, zips |-> z0, error |-> <<>>]
    ELSE IF io_fault THEN
        [dirs |-> d0, files |-> f0, zips |-> z0,
         error |-> <<"[Errno 28] No space left on device">>]
    ELSE
        LET cd  == << N_code, DirName(u) >>
            st  == PackAll(u, Grouped(u.examples),
                           [dirs |-> d0 \cup { <<N_code>>, cd }, files |-> f0,
                            error |-> <<>>])
        IN  IF st.error # <<>> THEN
                [dirs |-> st.dirs, files |-> st.files, zips |-> z0,
                 error |-> st.error]
            ELSE
                LET f1 == st.files \cup { Append(cd, N_readme) }
                    members == ArchiveMembers(f1, cd)
                IN  [dirs |-> st.dirs, files |-> f1 \cup { ZipPath(u) },
                     zips |-> WriteZip(z0, ZipPath(u), members),
                     error |-> <<>>]

-----------------------------------------------------------------------------
(* build_all_chapters.py *)

MaxUnits == 2

Steps == {"report", "markdown", "package"}

\* what the interpreter may do with an example during a build
BuildRuns(e) ==
    { MkRun("notfound", 0, <<>>, ""),
      MkRun("timeout", 0, <<>>, ""),
      MkRun("exit", 1, <<>>, "unknown operator"),
      MkRun("exit", 0, Printed(IF e.has_expected THEN e.expected ELSE Int_(1)), ""),
      MkRun("exit", 0, Printed(Arr(<<>>)), ""),
      MkRun("exit", 0, <<"oops", "\n">>, "") }

ValidatorIdle ==
    /\ v_example = NoExample
    /\ v_run = [run |-> NoRun, printed |-> <<>>]
    /\ v_out = <<>>
    /\ v_pkg = <<>>
    /\ v_proc = "none"

HarnessIdle ==
    /\ ValidatorIdle
    /\ SummaryIdle
    /\ first = <<>>
    /\ generate_examples = FALSE

\* the step `st` of the unit of file f is one the build gets to and that
\* writes: a fault injected anywhere else changes nothing
FaultBites(f, st) ==
    LET u == Content(f) IN
    /\ u.loads
    /\ u.is_appendix \/ u.has_chapter
    /\ st = "report" => validate /\ u.has_chapter /\ u.has_examples /\ u.examples # <<>>
    /\ st = "package" => u.has_examples /\ u.examples # <<>>

Init ==
    /\ source_dir \in { S \in SUBSET Pool : Cardinality(S) <= MaxUnits }
    /\ validate \in BOOLEAN
    /\ html \in BOOLEAN
    /\ html_rc = -1
    /\ fault \in { <<>> } \cup { x \in source_dir \X Steps : FaultBites(x[1], x[2]) }
    /\ pc = "discover"
    /\ chapter_files = <<>>
    /\ cur = 0
    /\ upc = "idle"
    /\ example_results = <<>>
    /\ unit_success = TRUE
    /\ results = <<>>
    /\ success = "unset"
    /\ exit_code = -1
    /\ dirs = {}
    /\ files = {}
    /\ zips = {}
    /\ tmpfiles = {}
    /\ log = <<>>
    /\ HarnessIdle

\* discover_chapters without the check for an empty list
DiscoverChaptersAlwaysFound(S) ==
    LET all == Sorted(Glob(S, <<"c", "h">>, DotToml))
                \o Sorted(Glob(S, <<"a", "p", "p", "e", "n", "d", "i", "x", "_">>, DotToml))
    IN  [chapter_files |-> all, found |-> TRUE]

\* BookBuilder.discover_chapters: the file list and the value returned
DiscoverChapters(S) ==
    LET chapter_files_  == Sorted(Glob(S, <<"c", "h">>, DotToml))
        appendix_files_ == Sorted(Glob(S, <<"a", "p", "p", "e", "n", "d", "i", "x", "_">>, DotToml))
        all == chapter_files_ \o appendix_files_
    IN  [chapter_files |-> all, found |-> all # <<>>]

\* main, lines 227-232: discovery, then the loop of generate_all_chapters
\* starts (it ends at once on an empty list)
Discover ==
    /\ pc = "discover"
    /\ LET d == DiscoverChapters(source_dir) IN
        /\ chapter_files' = d.chapter_files
        /\ IF d.found
           THEN /\ pc' = IF d.chapter_files = <<>> THEN "downloads" ELSE "units"
                /\ cur' = 1 /\ upc' = "load"
                /\ exit_code' = exit_code
           ELSE /\ pc' = "done" /\ cur' = cur /\ upc' = upc
                /\ exit_code' = 1
    /\ UNCHANGED <<source_dir, validate, html, html_rc, fault, example_results,
                   unit_success, results, success, dirs, files, zips, tmpfiles,
                   log>>
    /\ UNCHANGED harnessVars

CurFile == chapter_files[cur]
CurUnit == Content(CurFile)

LogOp(op, f) == Append(log, [op |-> op, file |-> f])

\* an error result that keeps the results of the validation done so far
ErrorResultWithValidation(f, msg) ==
    [chapter |-> Str(Stem(f)), file |-> f, success |-> FALSE, error |-> msg,
     validation_results |-> <<example_results>>]

\* generate_single_chapter's except clause (lines 91-97)
ErrorResult(f, msg) ==
    [chapter |-> Str(Stem(f)), file |-> f, success |-> FALSE, error |-> msg]

\* lines 78-82
Identifier(u) ==
    IF u.is_appendix THEN Str(<<"A", "p", "p", "e", "n", "d", "i", "x", " ">> \o u.letter) ELSE Int_(u.number)

\* lines 84-89; validation_results is <<>> for None and <<list>> for a list
OkResult(f, u, ok, ex_results) ==
    [chapter |-> Identifier(u), file |-> f, success |-> ok,
     validation_results |-> IF validate THEN <<ex_results>> ELSE <<>>]

\* a unit's exception is not caught at the unit boundary: nothing is recorded
\* for the unit and no later unit is processed
FinishUnitStopOnError(result) ==
    /\ results' = IF "error" \in DOMAIN result THEN results
                  ELSE Append(results, result)
    /\ cur' = cur + 1
    /\ upc' = "load"
    /\ pc' = IF cur = Len(chapter_files) \/ "error" \in DOMAIN result
             THEN "downloads" ELSE "units"
    /\ example_results' = <<>>
    /\ unit_success' = TRUE

\* the loop over the units is left after the first unit
FinishUnitLeaveLoop(result) ==
    /\ results' = Append(results, result)
    /\ cur' = cur + 1
    /\ upc' = "load"
    /\ pc' = "downloads"
    /\ example_results' = <<>>
    /\ unit_success' = TRUE

\* generate_single_chapter returns `result`; generate_all_chapters appends it
\* and goes on with the next file
FinishUnit(result) ==
    /\ results' = Append(results, result)
    /\ cur' = cur + 1
    /\ upc' = "load"
    /\ pc' = IF cur = Len(chapter_files) THEN "downloads" ELSE "units"
    /\ example_results' = <<>>
    /\ unit_success' = TRUE

\* BookChapterGenerator.__init__ (line 64)
LoadUnit ==
    /\ pc = "units" /\ upc = "load"
    /\ log' = LogOp("load", CurFile)
    /\ IF ~CurUnit.loads THEN FinishUnit(ErrorResult(CurFile, "Invalid TOML"))
       ELSE IF ~CurUnit.is_appendix /\ ~CurUnit.has_chapter
            THEN FinishUnit(ErrorResult(CurFile, "'chapter'"))
       ELSE /\ upc' = IF validate THEN "validate" ELSE "markdown"
            /\ example_results' = <<>>
            /\ unit_success' = TRUE
            /\ UNCHANGED <<results, cur, pc>>
    /\ UNCHANGED <<source_dir, validate, html, html_rc, fault, chapter_files,
                   success, exit_code, dirs, files, zips, tmpfiles>>
    /\ UNCHANGED harnessVars

\* validate_all_examples when there is nothing to loop over (lines 135-137,
\* or an empty list)
ValidateNone ==
    /\ pc = "units" /\ upc = "validate"
    /\ ~CurUnit.has_examples \/ CurUnit.examples = <<>>
    /\ upc' = "report"
    /\ UNCHANGED <<source_dir, validate, html, html_rc, fault, pc, chapter_files,
                   cur, example_results, unit_success, results, success,
                   exit_code, dirs, files, zips, tmpfiles, log>>
    /\ UNCHANGED harnessVars

\* ValidateOne with all_passed set to the success of the example at hand
ValidateOneLastWins ==
    /\ pc = "units" /\ upc = "validate"
    /\ CurUnit.has_examples
    /\ Len(example_results) < Len(CurUnit.examples)
    /\ LET i == Len(example_results) + 1
           e == CurUnit.examples[i]
       IN  \E run \in BuildRuns(e) :
            LET out == ValidateExample(e, run) IN
            /\ tmpfiles' = tmpfiles \cup { <<CurFile, i, role>> : role \in out.left }
            /\ example_results' =
                    Append(example_results, [example |-> e, result |-> out.result])
            /\ unit_success' = out.result.success
            /\ upc' = IF i = Len(CurUnit.examples) THEN "report" ELSE "validate"
            /\ UNCHANGED <<results, cur, pc>>
    /\ UNCHANGED <<source_dir, validate, html, html_rc, fault, chapter_files,
                   success, exit_code, dirs, files, zips, log>>
    /\ UNCHANGED harnessVars

\* one iteration of the loop of validate_all_examples (lines 143-160)
ValidateOne ==
    /\ pc = "units" /\ upc = "validate"
    /\ CurUnit.has_examples
    /\ Len(example_results) < Len(CurUnit.examples)
    /\ LET i == Len(example_results) + 1
           e == CurUnit.examples[i]
       IN  \E run \in BuildRuns(e) :
            LET out == ValidateExample(e, run) IN
            /\ tmpfiles' = tmpfiles \cup { <<CurFile, i, role>> : role \in out.left }
            /\ IF out.raised
               THEN /\ FinishUnit(ErrorResult(CurFile, "escaped _validate_example"))
               ELSE /\ example_results' =
                        Append(example_results, [example |-> e, result |-> out.result])
                    /\ unit_success' = (unit_success /\ out.result.success)
                    /\ upc' = IF i = Len(CurUnit.examples) THEN "report"
                              ELSE "validate"
                    /\ UNCHANGED <<results, cur, pc>>
    /\ UNCHANGED <<source_dir, validate, html, html_rc, fault, chapter_files,
                   success, exit_code, dirs, files, zips, log>>
    /\ UNCHANGED harnessVars

\* generate_test_report (lines 683-742), called at line 70
GenerateTestReport ==
    /\ pc = "units" /\ upc = "report"
    /\ IF example_results = <<>> THEN
            /\ upc' = "markdown"
            /\ UNCHANGED <<files, log, results, cur, pc, example_results,
                           unit_success>>
       ELSE IF ~CurUnit.has_chapter THEN
            /\ FinishUnit(ErrorResult(CurFile, "'chapter'"))
            /\ UNCHANGED <<files, log>>
       ELSE IF fault = <<CurFile, "report">> THEN
            /\ FinishUnit(ErrorResult(CurFile, "[Errno 28] No space left on device"))
            /\ UNCHANGED <<files, log>>
       ELSE
            /\ files' = files \cup { ReportPath(CurUnit) }
            /\ log' = LogOp("report", CurFile)
            /\ upc' = "markdown"
            /\ UNCHANGED <<results, cur, pc, example_results, unit_success>>
    /\ UNCHANGED <<source_dir, validate, html, html_rc, fault, chapter_files,
                   success, exit_code, dirs, zips, tmpfiles>>
    /\ UNCHANGED harnessVars

\* GenerateMarkdown that takes the unit's test report away again when the
\* page cannot be written
GenerateMarkdownRollingBack ==
    /\ pc = "units" /\ upc = "markdown"
    /\ IF fault = <<CurFile, "markdown">> THEN
            /\ FinishUnit(ErrorResult(CurFile, "[Errno 28] No space left on device"))
            /\ files' = files \ { ReportPath(CurUnit) }
            /\ UNCHANGED log
       ELSE
            /\ files' = files \cup { MarkdownPath(CurFile, CurUnit) }
            /\ log' = LogOp("markdown", CurFile)
            /\ upc' = "save"
            /\ UNCHANGED <<results, cur, pc, example_results, unit_success>>
    /\ UNCHANGED <<source_dir, validate, html, html_rc, fault, chapter_files,
                   success, exit_code, dirs, zips, tmpfiles>>
    /\ UNCHANGED harnessVars

\* generate_markdown (lines 400-418), called at line 73
GenerateMarkdown ==
    /\ pc = "units" /\ upc = "markdown"
    /\ IF fault = <<CurFile, "markdown">> THEN
            /\ FinishUnit(ErrorResult(CurFile, "[Errno 28] No space left on device"))
            /\ UNCHANGED <<files, log>>
       ELSE
            /\ files' = files \cup { MarkdownPath(CurFile, CurUnit) }
            /\ log' = LogOp("markdown", CurFile)
            /\ upc' = "save"
            /\ UNCHANGED <<results, cur, pc, example_results, unit_success>>
    /\ UNCHANGED <<source_dir, validate, html, html_rc, fault, chapter_files,
                   success, exit_code, dirs, zips, tmpfiles>>
    /\ UNCHANGED harnessVars

\* save_examples (line 76) and the return of generate_single_chapter
SaveExamples ==
    /\ pc = "units" /\ upc = "save"
    /\ LET s == SaveExamplesOrganized(CurUnit, dirs, files, zips,
                                      fault = <<CurFile, "package">>)
       IN  /\ dirs' = s.dirs
           /\ files' = s.files
           /\ zips' = s.zips
           /\ log' = LogOp("package", CurFile)
           /\ IF s.error # <<>>
              THEN FinishUnit(ErrorResult(CurFile, s.error[1]))
              ELSE FinishUnit(OkResult(CurFile, CurUnit, unit_success, example_results))
    /\ UNCHANGED <<source_dir, validate, html, html_rc, fault, chapter_files,
                   success, exit_code, tmpfiles>>
    /\ UNCHANGED harnessVars

\* every file below the output directory taken into the whole-build archive
UnifiedMembersOfOutput(fs) == fs

\* create_unified_downloads, lines 123-126: the arc names, relative to
\* code_dir.parent
UnifiedMembers(fs) == Below(fs, <<N_code>>)

\* create_unified_downloads (lines 111-128), called at line 235
CreateUnifiedDownloads ==
    /\ pc = "downloads"
    /\ IF <<N_code>> \notin dirs THEN UNCHANGED <<files, zips, log>>
       ELSE /\ files' = files \cup { <<N_all_zip>> }
            /\ zips' = WriteZip(zips, <<N_all_zip>>, UnifiedMembers(files))
            /\ log' = LogOp("unified", <<>>)
    /\ pc' = IF html THEN "html" ELSE "summary"
    /\ UNCHANGED <<source_dir, validate, html, html_rc, fault, chapter_files, cur,
                   upc, example_results, unit_success, results, success,
                   exit_code, dirs, tmpfiles>>
    /\ UNCHANGED harnessVars

\* the hypertext stage of main (lines 238-251)
HtmlStage ==
    /\ pc = "html"
    /\ \E rc \in {0, 1} :
        /\ html_rc' = rc
        /\ success' = IF rc = 0 THEN success ELSE "false"
    /\ log' = LogOp("html", <<>>)
    /\ pc' = "summary"
    /\ UNCHANGED <<source_dir, validate, html, fault, chapter_files, cur, upc,
                   example_results, unit_success, results, exit_code, dirs,
                   files, zips, tmpfiles>>
    /\ UNCHANGED harnessVars

\* create_build_summary: sum(1 for r in results if r['success'])
SuccessfulChapters(rs) == Cardinality({ i \in 1..Len(rs) : rs[i].success })

\* the summary reports success as soon as one unit succeeded
BuildSummaryOkAny(rs) == SuccessfulChapters(rs) > 0

\* create_build_summary's return value (line 207)
BuildSummaryOk(rs) == SuccessfulChapters(rs) = Len(rs)

\* create_build_summary and the end of main (lines 254-261)
CreateBuildSummary ==
    /\ pc = "summary"
    /\ files' = files \cup { <<N_summary>> }
    /\ log' = LogOp("summary", <<>>)
    /\ success' = IF BuildSummaryOk(results) THEN "true" ELSE "false"
    /\ exit_code' = IF BuildSummaryOk(results) THEN 0 ELSE 1
    /\ pc' = "done"
    /\ UNCHANGED <<source_dir, validate, html, html_rc, fault, chapter_files, cur,
                   upc, example_results, unit_success, results, dirs, zips,
                   tmpfiles>>
    /\ UNCHANGED harnessVars

Next ==
    \/ Discover
    \/ LoadUnit
    \/ ValidateNone
    \/ ValidateOne
    \/ GenerateTestReport
    \/ GenerateMarkdown
    \/ SaveExamples
    \/ CreateUnifiedDownloads
    \/ HtmlStage
    \/ CreateBuildSummary

Spec == Init /\ [][Next]_vars

-----------------------------------------------------------------------------
(* generate_book_chapter.py run by itself: main (lines 745-777) on one unit *)
(* file.  pc is the position in that main; an exception is not caught      *)
(* there, so the interpreter prints the traceback and exits with 1.         *)

InitM ==
    /\ \E f \in Pool :
        /\ source_dir = {f}
        /\ chapter_files = <<f>>
        /\ fault \in { <<>> } \cup { <<f, st>> : st \in Steps }
    /\ validate \in BOOLEAN
    /\ generate_examples \in BOOLEAN
    /\ html = FALSE
    /\ html_rc = -1
    /\ pc = "m_start"
    /\ cur = 1
    /\ upc = "idle"
    /\ example_results = <<>>
    /\ unit_success = TRUE
    /\ results = <<>>
    /\ success = "unset"
    /\ exit_code = -1
    /\ dirs = {}
    /\ files = {}
    /\ zips = {}
    /\ tmpfiles = {}
    /\ log = <<>>
    /\ first = <<>>
    /\ ValidatorIdle
    /\ SummaryIdle

\* what no step of this main changes
MFixed == <<source_dir, validate, html, html_rc, fault, chapter_files, cur, upc,
            results, success, v_example, v_run, v_out, v_pkg, v_proc, s_results,
            s_out, r_results, r_out, first, generate_examples>>

\* BookChapterGenerator(chapter_file, ...) at line 759
MStart ==
    /\ pc = "m_start"
    /\ IF ~CurUnit.loads \/ (~CurUnit.is_appendix /\ ~CurUnit.has_chapter)
       THEN /\ log' = LogOp("traceback", CurFile)
            /\ exit_code' = 1
            /\ pc' = "done"
       ELSE /\ log' = LogOp("load", CurFile)
            /\ pc' = IF validate THEN "m_validate" ELSE "m_markdown"
            /\ UNCHANGED exit_code
    /\ UNCHANGED <<example_results, unit_success, dirs, files, zips, tmpfiles>>
    /\ UNCHANGED MFixed

\* validate_all_examples (line 763) with nothing to loop over
MValidateNone ==
    /\ pc = "m_validate"
    /\ ~CurUnit.has_examples \/ CurUnit.examples = <<>>
    /\ pc' = "m_report"
    /\ UNCHANGED <<example_results, unit_success, exit_code, dirs, files, zips,
                   tmpfiles, log>>
    /\ UNCHANGED MFixed

\* one iteration of the loop of validate_all_examples (line 763)
MValidateOne ==
    /\ pc = "m_validate"
    /\ CurUnit.has_examples
    /\ Len(example_results) < Len(CurUnit.examples)
    /\ LET i == Len(example_results) + 1
           e == CurUnit.examples[i]
       IN  \E run \in BuildRuns(e) :
            LET out == ValidateExample(e, run) IN
            /\ tmpfiles' = tmpfiles \cup { <<CurFile, i, role>> : role \in out.left }
            /\ example_results' =
                    Append(example_results, [example |-> e, result |-> out.result])
            /\ unit_success' = (unit_success /\ out.result.success)
            /\ pc' = IF i = Len(CurUnit.examples) THEN "m_report" ELSE "m_validate"
    /\ UNCHANGED <<exit_code, dirs, files, zips, log>>
    /\ UNCHANGED MFixed

\* generate_test_report and the check of `success` (lines 764-767)
MReport ==
    /\ pc = "m_report"
    /\ IF example_results # <<>>
          /\ (~CurUnit.has_chapter \/ fault = <<CurFile, "report">>)
       THEN /\ log' = LogOp("traceback", CurFile)
            /\ exit_code' = 1
            /\ pc' = "done"
            /\ UNCHANGED files
       ELSE /\ IF example_results = <<>> THEN UNCHANGED <<files, log>>
               ELSE /\ files' = files \cup { ReportPath(CurUnit) }
                    /\ log' = LogOp("report", CurFile)
            /\ IF unit_success
               THEN pc' = "m_markdown" /\ UNCHANGED exit_code
               ELSE pc' = "done" /\ exit_code' = 1
    /\ UNCHANGED <<example_results, unit_success, dirs, zips, tmpfiles>>
    /\ UNCHANGED MFixed

\* generate_markdown (line 770), and the return when no packaging is asked for
MMarkdown ==
    /\ pc = "m_markdown"
    /\ IF fault = <<CurFile, "markdown">>
       THEN /\ log' = LogOp("traceback", CurFile)
            /\ exit_code' = 1
            /\ pc' = "done"
            /\ UNCHANGED files
       ELSE /\ files' = files \cup { MarkdownPath(CurFile, CurUnit) }
            /\ log' = LogOp("markdown", CurFile)
            /\ IF generate_examples
               THEN pc' = "m_save" /\ UNCHANGED exit_code
               ELSE pc' = "done" /\ exit_code' = 0
    /\ UNCHANGED <<example_results, unit_success, dirs, zips, tmpfiles>>
    /\ UNCHANGED MFixed

\* save_examples and the return (lines 772-777)
MSave ==
    /\ pc = "m_save"
    /\ LET s == SaveExamplesOrganized(CurUnit, dirs, files, zips,
                                      fault = <<CurFile, "package">>)
       IN  /\ dirs' = s.dirs
           /\ files' = s.files
           /\ zips' = s.zips
           /\ IF s.error # <<>>
              THEN log' = LogOp("traceback", CurFile) /\ exit_code' = 1
              ELSE log' = LogOp("package", CurFile) /\ exit_code' = 0
    /\ pc' = "done"
    /\ UNCHANGED <<example_results, unit_success, tmpfiles>>
    /\ UNCHANGED MFixed

NextM ==
    \/ MStart
    \/ MValidateNone
    \/ MValidateOne
    \/ MReport
    \/ MMarkdown
    \/ MSave

SpecM == InitM /\ [][NextM]_vars

-----------------------------------------------------------------------------
(* The build run a second time on the same sources into the same output    *)
(* directory                                                                *)

MaxRebuilt == 1

\* main is started again once it has returned: a new process, with the
\* output and temp directories as the first run left them
Rerun ==
    /\ pc = "done"
    /\ first = <<>>
    /\ first' = <<[files |-> files, zips |-> zips]>>
    /\ pc' = "discover"
    /\ chapter_files' = <<>>
    /\ cur' = 0
    /\ upc' = "idle"
    /\ example_results' = <<>>
    /\ unit_success' = TRUE
    /\ results' = <<>>
    /\ success' = "unset"
    /\ exit_code' = -1
    /\ html_rc' = -1
    /\ log' = <<>>
    /\ UNCHANGED <<source_dir, validate, html, fault, dirs, files, zips, tmpfiles>>
    /\ UNCHANGED <<validatorVars, summaryVars, generate_examples>>

InitI == Init /\ Cardinality(source_dir) <= MaxRebuilt

NextI == Next \/ Rerun

SpecI == InitI /\ [][NextI]_vars

-----------------------------------------------------------------------------
(* BookBuilder.create_build_summary: the content of build_summary.md *)

\* result.get('validation_results') when it is truthy, else nothing to loop over
ValidationResults(r) ==
    IF "validation_results" \in DOMAIN r /\ r.validation_results # <<>>
    THEN r.validation_results[1]
    ELSE <<>>

RECURSIVE CountValidationsMismatchOnly(_, _)
\* CountValidations with only output mismatches counted as failures
CountValidationsMismatchOnly(vs, c) ==
    IF vs = <<>> THEN c
    ELSE CountValidationsMismatchOnly(Tail(vs),
            [total  |-> c.total + 1,
             passed |-> c.passed + (IF Head(vs).result.success THEN 1 ELSE 0),
             failed |-> c.failed + (IF Outcome(Head(vs).result) = "Mismatch"
                                    THEN 1 ELSE 0)])

RECURSIVE CountValidations(_, _)
\* the inner loop of lines 144-149 over one unit's validation results
CountValidations(vs, c) ==
    IF vs = <<>> THEN c
    ELSE CountValidations(Tail(vs),
            [total  |-> c.total + 1,
             passed |-> c.passed + (IF Head(vs).result.success THEN 1 ELSE 0),
             failed |-> c.failed + (IF Head(vs).result.success THEN 0 ELSE 1)])

RECURSIVE CountExamples(_, _)
\* the outer loop of lines 142-149: total_examples, passed_examples,
\* failed_examples
CountExamples(rs, c) ==
    IF rs = <<>> THEN c
    ELSE CountExamples(Tail(rs), CountValidations(ValidationResults(Head(rs)), c))

RECURSIVE Split(_, _, _)
\* str.split(): the words between runs of whitespace
Split(t, word, acc) ==
    IF t = <<>> THEN (IF word = <<>> THEN acc ELSE Append(acc, word))
    ELSE IF Head(t) \in Whitespace
        THEN Split(Tail(t), <<>>, IF word = <<>> THEN acc ELSE Append(acc, word))
    ELSE Split(Tail(t), Append(word, Head(t)), acc)

AppendixPrefix == <<"A", "p", "p", "e", "n", "d", "i", "x", " ">>

\* every identifier sorted by its string form
SortKeyByString(result) ==
    LET chapter_id == result.chapter IN
    IF chapter_id.k \in {"int", "bool"}
    THEN <<2, IF chapter_id.v < 10 THEN <<DigitChar(chapter_id.v)>>
              ELSE TwoDigits(chapter_id.v)>>
    ELSE <<2, chapter_id.v>>

\* sort_key (lines 175-188): a pair <<tier, key>>
SortKey(result) ==
    LET chapter_id == result.chapter IN
    IF chapter_id.k \in {"int", "bool"} THEN <<0, chapter_id.v>>
    ELSE IF chapter_id.k = "str" /\ StartsWith(chapter_id.v, AppendixPrefix) THEN
        LET words  == Split(chapter_id.v, <<>>, <<>>)
            letter == words[Len(words)]
        IN  IF Len(letter) = 1 THEN <<1, Ord(letter[1])>> ELSE <<1, 999>>
    ELSE <<2, chapter_id.v>>

\* a < b for the tuples sort_key returns
KeyLess(a, b) ==
    \/ a[1] < b[1]
    \/ /\ a[1] = b[1]
       /\ IF a[1] = 2 THEN LexLess(a[2], b[2]) ELSE a[2] < b[2]

RECURSIVE InsertSortedFirst(_, _)
\* r put before every element whose key is not less than its own
InsertSortedFirst(srt, r) ==
    IF srt = <<>> THEN <<r>>
    ELSE IF ~KeyLess(SortKey(Head(srt)), SortKey(r)) THEN <<r>> \o srt
    ELSE <<Head(srt)>> \o InsertSortedFirst(Tail(srt), r)

RECURSIVE InsertSorted(_, _)
\* r put behind every element whose key is not greater than its own
InsertSorted(srt, r) ==
    IF srt = <<>> THEN <<r>>
    ELSE IF KeyLess(SortKey(r), SortKey(Head(srt))) THEN <<r>> \o srt
    ELSE <<Head(srt)>> \o InsertSorted(Tail(srt), r)

RECURSIVE SortedResults(_)
\* sorted(results, key=sort_key): a stable sort
SortedResults(rs) ==
    IF rs = <<>> THEN <<>>
    ELSE InsertSorted(SortedResults(SubSeq(rs, 1, Len(rs) - 1)), rs[Len(rs)])

\* one line of "Content Details" (lines 191-201)
DetailLine(result) ==
    [status  |-> IF result.success THEN "PASS" ELSE "FAIL",
     chapter |-> result.chapter,
     detail  |->
        IF "error" \in DOMAIN result
        THEN [kind |-> "Error", text |-> result.error]
        ELSE IF ValidationResults(result) # <<>>
        THEN LET c == CountValidations(ValidationResults(result),
                                       [total |-> 0, passed |-> 0, failed |-> 0])
             IN  [kind |-> "Examples", passed |-> c.passed, total |-> c.total]
        ELSE [kind |-> "none"]]

\* create_build_summary: what it writes and what it returns (ok)
BuildSummary(rs) ==
    LET total_chapters      == Len(rs)
        successful_chapters == SuccessfulChapters(rs)
        c   == CountExamples(rs, [total |-> 0, passed |-> 0, failed |-> 0])
        srt == SortedResults(rs)
    IN  [total_chapters      |-> total_chapters,
         successful_chapters |-> successful_chapters,
         failed_chapters     |-> total_chapters - successful_chapters,
         examples            |-> IF c.total > 0 THEN <<c>> ELSE <<>>,
         details             |-> [i \in 1..Len(srt) |-> DetailLine(srt[i])],
         ok                  |-> BuildSummaryOk(rs)]

-----------------------------------------------------------------------------
(* BookChapterGenerator.generate_test_report: the content of the report of  *)
(* one unit                                                                 *)

\* every result of the list given under each section
SectionPartAll(rs, section) ==
    [section        |-> section,
     section_passed |-> Len(SelectSeq(rs, LAMBDA r : r.result.success)),
     section_total  |-> Len(rs),
     lines          |-> [i \in 1..Len(rs) |->
                            [ok |-> rs[i].result.success, name |-> rs[i].example.name]]]

\* one entry of results_by_section with its header and its lines (lines
\* 705-720)
SectionPart(rs, section) ==
    LET section_results == SelectSeq(rs, LAMBDA r : Section(r.example) = section) IN
    [section        |-> section,
     section_passed |-> Len(SelectSeq(section_results, LAMBDA r : r.result.success)),
     section_total  |-> Len(section_results),
     lines          |-> [i \in 1..Len(section_results) |->
                            [ok   |-> section_results[i].result.success,
                             name |-> section_results[i].example.name]]]

\* one block of "Failed Examples" (lines 726-740); a field that is not
\* written is <<>>
FailedBlock(r) ==
    LET error == r.result
        both  == "expected" \in DOMAIN error /\ "actual" \in DOMAIN error
    IN  [name     |-> r.example.name,
         error    |-> error.error,
         command  |-> IF "command" \in DOMAIN error THEN <<error.command>> ELSE <<>>,
         expected |-> IF both THEN <<error.expected>> ELSE <<>>,
         actual   |-> IF both THEN <<error.actual>> ELSE <<>>,
         stderr   |-> IF "stderr" \in DOMAIN error /\ error.stderr # ""
                      THEN <<error.stderr>> ELSE <<>>,
         stdout   |-> IF "stdout" \in DOMAIN error /\ error.stdout # <<>>
                      THEN <<error.stdout>> ELSE <<>>]

\* generate_test_report: <<>> when nothing is written (line 685), else the
\* one report
TestReport(rs) ==
    IF rs = <<>> THEN <<>>
    ELSE
        LET total  == Len(rs)
            passed == Len(SelectSeq(rs, LAMBDA r : r.result.success))
            failed == total - passed
            secs   == SectionsOf([i \in 1..Len(rs) |-> rs[i].example], <<>>)
            bad    == SelectSeq(rs, LAMBDA r : ~r.result.success)
        IN  << [total    |-> total,
                passed   |-> passed,
                failed   |-> failed,
                sections |-> [i \in 1..Len(secs) |-> SectionPart(rs, secs[i])],
                failed_examples |->
                    IF failed > 0
                    THEN <<[i \in 1..Len(bad) |-> FailedBlock(bad[i])]>>
                    ELSE <<>>] >>

-----------------------------------------------------------------------------
(* Summary harness: create_build_summary on a list of build results, and    *)
(* generate_test_report on a list of example results                        *)

MaxResults == 4

PassEntry ==
    [example |-> E_add_two,
     result  |-> ValidateExample(E_add_two, MkRun("exit", 0, Printed(Int_(3)), "")).result]

MismatchEntry ==
    [example |-> E_lookup,
     result  |-> ValidateExample(E_lookup, MkRun("exit", 0, Printed(Arr(<<>>)), "")).result]

TimeoutEntry ==
    [example |-> E_add_two,
     result  |-> ValidateExample(E_add_two, MkRun("timeout", 0, <<>>, "")).result]

\* the dictionary of lines 84-89
UnitResult(f, id, ok, vr) ==
    [chapter |-> id, file |-> f, success |-> ok, validation_results |-> vr]

ResultPool ==
    { UnitResult(F_ch2, Int_(2), TRUE, <<>>),
      UnitResult(F_ch1, Int_(1), TRUE, << <<PassEntry, PassEntry>> >>),
      UnitResult(F_ch10, Int_(10), FALSE, << <<PassEntry, MismatchEntry>> >>),
      UnitResult(F_ch1, Int_(1), FALSE, << <<TimeoutEntry>> >>),
      UnitResult(F_appendix_b, Str(AppendixPrefix \o <<"B">>), TRUE, << <<>> >>),
      UnitResult(F_appendix_a, Str(AppendixPrefix \o <<"A">>), TRUE, <<>>),
      ErrorResult(F_chbad, "Invalid TOML"),
      ErrorResult(F_appendix_a, "'chapter'") }

\* example results of every outcome, in two sections
EntryPool ==
    { PassEntry, MismatchEntry, TimeoutEntry,
      [example |-> E_with_input,
       result  |-> ValidateExample(E_with_input,
                        MkRun("exit", 0, Printed(E_with_input.expected), "")).result],
      [example |-> E_with_input,
       result  |-> ValidateExample(E_with_input,
                        MkRun("exit", 1, <<>>, "unknown operator")).result],
      [example |-> E_koan,
       result  |-> ValidateExample(E_koan, MkRun("exit", 0, <<"oops", "\n">>, "")).result],
      [example |-> E_no_expected,
       result  |-> ValidateExample(E_no_expected,
                        MkRun("exit", 0, Printed(Int_(1)), "")).result] }

InitS ==
    /\ BuildIdle
    /\ ValidatorIdle
    /\ s_out = <<>>
    /\ r_out = <<>>
    /\ \/ /\ s_results \in SeqsUpTo(ResultPool, MaxResults)
          /\ r_results = <<>>
       \/ /\ s_results = <<>>
          /\ r_results \in SeqsUpTo(EntryPool, MaxResults)
       \/ /\ s_results \in [1..3 -> { r \in ResultPool : r.file \in {F_ch1, F_ch2} }]
          /\ r_results \in [1..3 -> { e \in EntryPool : e.example \in {E_add_two, E_lookup, E_with_input} }]

SSummarise ==
    /\ pc = "idle"
    /\ s_out = <<>>
    /\ s_out' = <<BuildSummary(s_results)>>
    /\ UNCHANGED <<s_results, r_results, r_out>>
    /\ UNCHANGED validatorVars
    /\ UNCHANGED buildVars
    /\ UNCHANGED entryVars

SReport ==
    /\ pc = "idle"
    /\ r_out = <<>>
    /\ r_out' = <<TestReport(r_results)>>
    /\ UNCHANGED <<s_results, s_out, r_results>>
    /\ UNCHANGED validatorVars
    /\ UNCHANGED buildVars
    /\ UNCHANGED entryVars

NextS == SSummarise \/ SReport

SpecS == InitS /\ [][NextS]_vars

-----------------------------------------------------------------------------
(* Properties of the build summary *)

\* the positions <<unit, example>> of all validation results in a list
Entries(rs) ==
    UNION { { <<i, k>> : k \in 1..Len(ValidationResults(rs[i])) } : i \in 1..Len(rs) }

EntryPassed(rs, x) == ValidationResults(rs[x[1]])[x[2]].result.success

\* C12: in every build summary the total unit count is the number of
\* succeeded units plus the number of failed units, and whenever example
\* counts are shown the total example count is the number of passed plus the
\* number of failed validation results, each count being the true one.
C12_SummaryCounts ==
    s_out # <<>> =>
        LET b == s_out[1] IN
        /\ b.total_chapters = Len(s_results)
        /\ b.successful_chapters =
                Cardinality({ i \in 1..Len(s_results) : s_results[i].success })
        /\ b.failed_chapters =
                Cardinality({ i \in 1..Len(s_results) : ~s_results[i].success })
        /\ b.total_chapters = b.successful_chapters + b.failed_chapters
        /\ b.examples # <<>> =>
            /\ b.examples[1].total = Cardinality(Entries(s_results))
            /\ b.examples[1].passed =
                    Cardinality({ x \in Entries(s_results) : EntryPassed(s_results, x) })
            /\ b.examples[1].failed =
                    Cardinality({ x \in Entries(s_results) : ~EntryPassed(s_results, x) })
            /\ b.examples[1].total = b.examples[1].passed + b.examples[1].failed

\* a summary of two units, one failed, with a timeout among the examples
C12_Witness ==
    /\ s_out # <<>>
    /\ s_out[1].total_chapters = 2
    /\ s_out[1].failed_chapters = 1
    /\ s_out[1].examples # <<>>
    /\ s_out[1].examples[1].total = 3
    /\ s_out[1].examples[1].failed = 1
    /\ \E x \in Entries(s_results) :
            Outcome(ValidationResults(s_results[x[1]])[x[2]].result) = "Timeout"

\* the tier of an identifier: chapter, appendix, anything else
IdTier(id) ==
    IF id.k = "int" THEN 0
    ELSE IF StartsWith(id.v, AppendixPrefix) THEN 1
    ELSE 2

AppendixLetter(id) == SubSeq(id.v, Len(AppendixPrefix) + 1, Len(id.v))

\* identifier a may be listed before identifier b
MayPrecede(a, b) ==
    \/ IdTier(a) < IdTier(b)
    \/ /\ IdTier(a) = IdTier(b)
       /\ CASE IdTier(a) = 0 -> a.v <= b.v
            [] IdTier(a) = 1 -> ~LexLess(AppendixLetter(b), AppendixLetter(a))
            [] OTHER         -> ~LexLess(b.v, a.v)

\* C13: the summary lists every unit once: all chapters first in ascending
\* number, then all appendices in ascending letter, then every other
\* identifier in lexicographic order of its string form, whatever the order
\* of the results list.
C13_SummaryOrder ==
    s_out # <<>> =>
        LET d == s_out[1].details IN
        /\ Len(d) = Len(s_results)
        /\ \A r \in Range(s_results) :
                Cardinality({ i \in 1..Len(d) :
                                /\ d[i].chapter = r.chapter
                                /\ (d[i].status = "PASS") = r.success })
                    = Cardinality({ i \in 1..Len(s_results) :
                                /\ s_results[i].chapter = r.chapter
                                /\ s_results[i].success = r.success })
        /\ \A i, j \in 1..Len(d) : i < j => MayPrecede(d[i].chapter, d[j].chapter)

\* appendix B, chapter 2, appendix A, chapter 1 are listed as 1, 2, A, B
C13_Witness ==
    /\ s_out # <<>>
    /\ Len(s_results) = 4
    /\ s_results[1].chapter = Str(AppendixPrefix \o <<"B">>)
    /\ s_results[2].chapter = Int_(2)
    /\ s_results[3].chapter = Str(AppendixPrefix \o <<"A">>)
    /\ s_results[4].chapter = Int_(1)
    /\ s_out[1].details[1].chapter = Int_(1)
    /\ s_out[1].details[2].chapter = Int_(2)
    /\ s_out[1].details[3].chapter = Str(AppendixPrefix \o <<"A">>)
    /\ s_out[1].details[4].chapter = Str(AppendixPrefix \o <<"B">>)

-----------------------------------------------------------------------------
(* Sort-key harness: create_build_summary on results whose identifiers are  *)
(* not all chapter numbers and single appendix letters                     *)

\* results of appendices whose letter is not one character, next to a
\* single-letter appendix, a chapter and a unit that failed to load
OddPool ==
    { UnitResult(F_appendix_a, Str(AppendixPrefix \o <<"A", "A">>), TRUE, <<>>),
      UnitResult(F_appendix_b, Str(AppendixPrefix \o <<"B", "B">>), TRUE, <<>>),
      UnitResult(F_appendix_b, Str(AppendixPrefix \o <<"B">>), TRUE, << <<>> >>),
      UnitResult(F_ch10, Int_(10), FALSE, << <<PassEntry, MismatchEntry>> >>),
      ErrorResult(F_chbad, "Invalid TOML"),
      ErrorResult(F_ch2, "Unknown format code 'd' for object of type 'float'") }

InitK ==
    /\ BuildIdle
    /\ ValidatorIdle
    /\ s_results \in SeqsUpTo(OddPool, MaxResults)
    /\ s_out = <<>>
    /\ r_results \in SeqsUpTo({PassEntry, MismatchEntry}, 1)
    /\ r_out = <<>>

SpecK == InitK /\ [][NextS]_vars

\* the permutations of 1..n
Perms(n) ==
    { p \in [1..n -> 1..n] : \A i, j \in 1..n : i # j => p[i] # p[j] }

\* C21: the summary sort key is a total order on build results: two results
\* with different unit identifiers never receive equal sort keys, also when
\* an appendix letter is not a single character or a chapter number is not
\* an integer, and results with equal keys are listed in their input order.
C21_SortKeyTotal ==
    s_out # <<>> =>
        LET n == Len(s_results)
            d == s_out[1].details
        IN  /\ \A i, j \in 1..n :
                    s_results[i].chapter # s_results[j].chapter
                        => SortKey(s_results[i]) # SortKey(s_results[j])
            /\ \E p \in Perms(n) :
                    /\ \A k \in 1..n : d[k] = DetailLine(s_results[p[k]])
                    /\ \A k, m \in 1..n :
                            (k < m /\ SortKey(s_results[p[k]]) = SortKey(s_results[p[m]]))
                                => p[k] < p[m]

-----------------------------------------------------------------------------
(* Properties of the build *)

Finished == pc \in {"downloads", "html", "summary", "done"}

IsError(r) == "error" \in DOMAIN r

\* the unit of file f was constructed (BookChapterGenerator.__init__ returned)
Loaded(f) == Content(f).loads /\ (Content(f).is_appendix \/ Content(f).has_chapter)

NumExamples(u) == IF u.has_examples THEN Len(u.examples) ELSE 0

\* C3: _validate_example never raises to validate_all_examples: no unit ends
\* with an exception escaped from it, every loop iteration records a result
\* for its own example, and once the loop is over there is one result per
\* example, in order, whatever the earlier examples did.
C3_NeverRaises ==
    /\ \A i \in 1..Len(results) :
            IsError(results[i]) => results[i].error # "escaped _validate_example"
    /\ (pc = "units" /\ upc = "validate") =>
            /\ Len(example_results) <= NumExamples(CurUnit)
            /\ \A i \in 1..Len(example_results) :
                    example_results[i].example = CurUnit.examples[i]
    /\ (pc = "units" /\ validate /\ upc \in {"report", "markdown", "save"}) =>
            /\ Len(example_results) = NumExamples(CurUnit)
            /\ \A i \in 1..Len(example_results) :
                    example_results[i].example = CurUnit.examples[i]

\* the first example timed out and the second one was still validated
C3_Witness ==
    /\ pc = "units" /\ upc = "report"
    /\ Len(example_results) = 2
    /\ Outcome(example_results[1].result) = "Timeout"
    /\ example_results[2].result.success

\* C4: no temporary file of a validation that has returned is left behind.
C4_NoTempFilesLeft == tmpfiles = {}

\* C5: a build that discovered at least one unit exits with 0 iff every
\* unit's build result has success = true, and with 1 otherwise.
C5_ExitCode ==
    (pc = "done" /\ chapter_files # <<>>) =>
        /\ Len(results) = Len(chapter_files)
        /\ exit_code = (IF \A i \in 1..Len(results) : results[i].success
                        THEN 0 ELSE 1)

\* two units, one succeeded and one failed: exit code 1
C5_Witness ==
    /\ pc = "done"
    /\ Len(results) = 2
    /\ results[1].success /\ ~results[2].success
    /\ exit_code = 1

\* C6: a hypertext stage that exits non-zero makes the build exit with 1.
C6_HtmlFailureFailsBuild ==
    (pc = "done" /\ html_rc > 0) => exit_code = 1

\* C7: a build that discovers no unit file returns 1 and has done nothing
\* else: no unit loaded, nothing written, no archive, no hypertext stage.
C7_NoUnitsIsFatal ==
    (pc # "discover" /\ chapter_files = <<>>) =>
        /\ pc = "done"
        /\ exit_code = 1
        /\ results = <<>>
        /\ log = <<>>
        /\ dirs = {} /\ files = {} /\ zips = {}
        /\ html_rc = -1

\* the source directory holds a file, but none that is a unit file
C7_Witness ==
    /\ pc = "done"
    /\ source_dir = {F_notes}
    /\ chapter_files = <<>>
    /\ exit_code = 1

IsChapterFile(f)  == StartsWith(f, <<"c", "h">>) /\ EndsWith(f, DotToml)
IsAppendixFile(f) ==
    StartsWith(f, <<"a", "p", "p", "e", "n", "d", "i", "x", "_">>) /\ EndsWith(f, DotToml)

\* C8: the discovered files are exactly the unit files of the source
\* directory, chapters in ascending file-name order and then appendices in
\* ascending file-name order; results are produced one per file in that order;
\* a unit that raises is recorded with success = false and the exception's
\* message, and the units after it are processed all the same.
C8_OneResultPerUnit ==
    /\ pc # "discover" =>
        /\ Range(chapter_files) =
                { f \in source_dir : IsChapterFile(f) \/ IsAppendixFile(f) }
        /\ \A i, j \in 1..Len(chapter_files) : i < j =>
                /\ chapter_files[i] # chapter_files[j]
                /\ ~(IsAppendixFile(chapter_files[i]) /\ IsChapterFile(chapter_files[j]))
                /\ (IsChapterFile(chapter_files[i]) <=> IsChapterFile(chapter_files[j]))
                        => LexLess(chapter_files[i], chapter_files[j])
    /\ Len(results) <= Len(chapter_files)
    /\ pc = "units" => Len(results) = cur - 1
    /\ Finished => Len(results) = Len(chapter_files)
    /\ \A i \in 1..Len(results) :
        LET r == results[i]
            f == chapter_files[i]
        IN  /\ r.file = f
            /\ IsError(r) => ~r.success /\ r.chapter = Str(Stem(f))
            /\ ~Loaded(f) =>
                    /\ IsError(r)
                    /\ r.error = (IF Content(f).loads THEN "'chapter'" ELSE "Invalid TOML")
            /\ (Loaded(f) /\ ~validate /\ fault = <<f, "markdown">>) =>
                    /\ IsError(r)
                    /\ r.error = "[Errno 28] No space left on device"

\* the first unit raised while loading, the second one succeeded
C8_Witness ==
    /\ pc = "done"
    /\ Len(results) = 2
    /\ IsError(results[1])
    /\ results[1].error = "Invalid TOML"
    /\ results[2].success

\* C9: for a loaded unit with N >= 1 examples, each with an expected output,
\* that was validated and hit no I/O fault: the text page exists, the N
\* example directories exist, and the unit is successful iff no example
\* failed.
C9_PackagingNotGated ==
    \A i \in 1..Len(results) :
        LET r == results[i]
            f == r.file
            u == Content(f)
        IN  ( /\ Loaded(f) /\ validate
              /\ NumExamples(u) >= 1
              /\ \A k \in 1..NumExamples(u) : u.examples[k].has_expected
              /\ (fault = <<>> \/ fault[1] # f) ) =>
                /\ MarkdownPath(f, u) \in files
                /\ \A k \in 1..NumExamples(u) : ExampleDir(u, u.examples[k]) \in dirs
                /\ ~IsError(r)
                /\ r.success <=>
                        \A k \in 1..Len(r.validation_results[1]) :
                            r.validation_results[1][k].result.success

\* C10: an example without an expected output is packaged, does not make the
\* packaging of its unit fail, and its validation is never a failure.
C10_UnverifiablePackaged ==
    \A i \in 1..Len(results) :
        LET r == results[i]
            f == r.file
            u == Content(f)
        IN  ( /\ Loaded(f) /\ ~u.is_appendix
              /\ (fault = <<>> \/ fault[1] # f) ) =>
                \A k \in 1..NumExamples(u) :
                    ~u.examples[k].has_expected =>
                        /\ ~IsError(r)
                        /\ Append(ExampleDir(u, u.examples[k]), N_script) \in files
                        /\ validate => r.validation_results[1][k].result.success

\* the unit of results[i] went through every step without an injected fault
Unfaulted(f) == fault = <<>> \/ fault[1] # f

\* C16: every unit that loads and has examples (each with an expected
\* output), chapter or appendix, gets its example directories with a metadata
\* file, one archive at code/<unit-dir>_examples.zip and, when validation is
\* requested, one test report; such a unit is successful when all its
\* examples pass.
C16_AppendicesPackaged ==
    \A i \in 1..Len(results) :
        LET r == results[i]
            f == r.file
            u == Content(f)
        IN  ( /\ Loaded(f) /\ Unfaulted(f)
              /\ NumExamples(u) >= 1
              /\ \A k \in 1..NumExamples(u) : u.examples[k].has_expected ) =>
                /\ \A k \in 1..NumExamples(u) :
                    /\ ExampleDir(u, u.examples[k]) \in dirs
                    /\ Append(ExampleDir(u, u.examples[k]), N_metadata) \in files
                /\ << N_code, DirName(u) \o <<"_", "e", "x", "a", "m", "p", "l", "e", "s", ".", "z", "i", "p">> >> \in files
                /\ validate =>
                    /\ \E p \in files : Len(p) = 1 /\ EndsWith(p[1], <<"_", "t", "e", "s", "t", "_", "r", "e", "p", "o", "r", "t", ".", "m", "d">>)
                    /\ ~IsError(r)
                    /\ (\A k \in 1..Len(r.validation_results[1]) :
                            r.validation_results[1][k].result.success) => r.success

\* C17: a unit's archive holds exactly the files beneath the unit's
\* directory, each under its path relative to the directory's parent, so
\* every member path begins with the unit's directory name.
C17_ArchiveContents ==
    \A i \in 1..Len(results) :
        (~IsError(results[i]) /\ NumExamples(Content(results[i].file)) >= 1) =>
            LET u  == Content(results[i].file)
                dn == DirName(u)
                zp == ZipPath(u)
                beneath == { q \in files : Len(q) > 2 /\ q[2] = dn /\ q[1] = N_code }
            IN  \E z \in zips :
                    /\ z.path = zp
                    /\ z.members = { SubSeq(p, 2, Len(p)) : p \in beneath }
                    /\ z.members # {}
                    /\ \A m \in z.members : m[1] = dn

\* two chapters were packaged one after the other: the second one's archive
\* was written while the first one's files lay next to its directory
C17_Witness ==
    /\ Len(results) = 2
    /\ ~IsError(results[1]) /\ ~IsError(results[2])
    /\ results[1].file = F_ch1 /\ results[2].file = F_ch10
    /\ \E z \in zips : z.path = ZipPath(Content(F_ch10))
                        /\ <<DirName(Content(F_ch10)), N_readme>> \in z.members
    /\ \E z \in zips : z.path = ZipPath(Content(F_ch1))
                        /\ <<DirName(Content(F_ch1)), <<"b", "a", "s", "i", "c", "s">>,
                             <<"w", "i", "t", "h", "_", "i", "n", "p", "u", "t">>, N_input>>
                                \in z.members

AfterDownloads == {"html", "summary", "done"}

\* C18: in a build that discovered units, the whole-build archive step runs
\* exactly once: it is entered only when every discovered unit has its
\* result, it is left for the hypertext stage (not yet run) or the summary,
\* it is never entered again, and the archive it writes holds every file then
\* beneath code/.
C18_UnifiedArchiveOnce ==
    [][ /\ (pc' = "downloads" /\ pc # "downloads") =>
                /\ pc \in {"discover", "units"}
                /\ chapter_files' # <<>>
                /\ Len(results') = Len(chapter_files')
        /\ (pc' \in AfterDownloads /\ pc \notin AfterDownloads) =>
                \/ pc = "downloads"
                \/ pc = "discover" /\ chapter_files' = <<>> /\ pc' = "done"
        /\ (pc = "downloads" /\ pc' # "downloads") =>
                /\ pc' = (IF html THEN "html" ELSE "summary")
                /\ html_rc = -1 /\ html_rc' = -1
                /\ results' = results /\ dirs' = dirs
                /\ \A p \in files' \ files : p = <<N_all_zip>>
                /\ <<N_code>> \in dirs =>
                        /\ <<N_all_zip>> \in files'
                        /\ \E z \in zips' :
                            /\ z.path = <<N_all_zip>>
                            /\ z.members = { p \in files : p[1] = N_code /\ Len(p) > 1 }
        /\ pc \in AfterDownloads =>
                /\ pc' # "downloads"
                /\ zips' = zips
                /\ results' = results
      ]_vars

\* a finished build of two units with the hypertext stage: the whole-build
\* archive holds the example files and the unit archive written before it
C18_Witness ==
    /\ pc = "done"
    /\ Len(results) = 2
    /\ html_rc = 0
    /\ \E z \in zips :
        /\ z.path = <<N_all_zip>>
        /\ ZipPath(Content(F_ch1)) \in z.members
        /\ Append(ExampleDir(Content(F_ch1), E_add_two), N_script) \in z.members

\* C19: every build that ends in failure has written a build summary, and
\* the summary names each failed unit with the reason of its failure and
\* each failed example with the reason of its failure.
C19_FailingBuildWritesSummary ==
    (pc = "done" /\ exit_code = 1) =>
        /\ <<N_summary>> \in files
        /\ LET b == BuildSummary(results) IN
            \A i \in 1..Len(results) : ~results[i].success =>
                \E n \in 1..Len(b.details) :
                    /\ b.details[n].chapter = results[i].chapter
                    /\ b.details[n].status = "FAIL"
                    /\ b.details[n].detail.kind = "Error"

IsReport(p) ==
    Len(p) = 1 /\ EndsWith(p[1], <<"_", "t", "e", "s", "t", "_", "r", "e", "p", "o", "r", "t", ".", "m", "d">>)

\* C20: a build of at least one unit with validation requested (and no I/O
\* fault) has written one test report for every unit that was validated,
\* units without examples and appendices included, each in a file of its
\* own, and one summary file.
C20_OneReportPerValidatedUnit ==
    (pc = "done" /\ validate /\ fault = <<>> /\ chapter_files # <<>>) =>
        /\ Cardinality({ p \in files : IsReport(p) })
                = Cardinality({ i \in 1..Len(results) : Loaded(results[i].file) })
        /\ <<N_summary>> \in files


-----------------------------------------------------------------------------
(* Properties of the per-unit test report *)

\* the positions in r_results of the results of section s / that failed
InSection(s) == { i \in 1..Len(r_results) : Section(r_results[i].example) = s }

Failing == { i \in 1..Len(r_results) : ~r_results[i].result.success }

RECURSIVE SumTotals(_)
SumTotals(parts) ==
    IF parts = <<>> THEN 0 ELSE Head(parts).section_total + SumTotals(Tail(parts))

\* the k-th failing result of r_results
NthFailing(k) ==
    CHOOSE i \in Failing : Cardinality({ j \in Failing : j <= i }) = k

\* C22: the report of a unit states total, passed and failed with total =
\* passed + failed = the number of recorded results; each section header
\* carries the passed and total counts of its own results and the section
\* totals add up to the unit total; the failed-examples part is there exactly
\* when failed > 0, with one block per failing result that shows the command
\* only when the result carries one, expected and actual only when the result
\* carries both, and stderr and stdout only when they are not empty.
C22_ReportCounts ==
    (r_out # <<>> /\ r_out[1] # <<>>) =>
        LET t == r_out[1][1] IN
        /\ t.total = Len(r_results)
        /\ t.failed = Cardinality(Failing)
        /\ t.total = t.passed + t.failed
        /\ \A k \in 1..Len(t.sections) :
                LET p == t.sections[k] IN
                /\ p.section_total = Cardinality(InSection(p.section))
                /\ p.section_passed = Cardinality(InSection(p.section) \ Failing)
        /\ SumTotals(t.sections) = t.total
        /\ (t.failed_examples # <<>>) <=> (t.failed > 0)
        /\ t.failed_examples # <<>> =>
            LET blocks == t.failed_examples[1] IN
            /\ Len(blocks) = t.failed
            /\ \A k \in 1..Len(blocks) :
                    LET r == r_results[NthFailing(k)]
                        o == Outcome(r.result)
                    IN  /\ blocks[k].name = r.example.name
                        /\ (blocks[k].command # <<>>)
                                <=> o \in {"ProcessFailure", "ParseFailure"}
                        /\ (blocks[k].expected # <<>>) <=> o = "Mismatch"
                        /\ (blocks[k].actual # <<>>) <=> o = "Mismatch"
                        /\ (blocks[k].stderr # <<>>)
                                <=> (o \in {"ProcessFailure", "ParseFailure", "Mismatch"}
                                     /\ r.result.stderr # "")
                        /\ (blocks[k].stdout # <<>>)
                                <=> (o \in {"ProcessFailure", "Mismatch"}
                                     /\ r.result.stdout # <<>>)

\* a report of four results in two sections, one section with a failure that
\* carries a command and stderr, the other with a mismatch
C22_Witness ==
    /\ r_out # <<>> /\ r_out[1] # <<>>
    /\ r_out[1][1].total = 4
    /\ r_out[1][1].failed = 2
    /\ Len(r_out[1][1].sections) = 2
    /\ r_out[1][1].sections[1].section_total = 2
    /\ r_out[1][1].sections[1].section_passed = 1
    /\ r_out[1][1].sections[2].section_passed = 1
    /\ \E k \in 1..2 :
            /\ r_out[1][1].failed_examples[1][k].command # <<>>
            /\ r_out[1][1].failed_examples[1][k].stderr # <<>>
    /\ \E k \in 1..2 : r_out[1][1].failed_examples[1][k].expected # <<>>


-----------------------------------------------------------------------------
(* Order of the lines of the two reports *)

\* the k-th smallest member of a set of positions
Nth(S, k) == CHOOSE i \in S : Cardinality({ j \in S : j <= i }) = k

Least(S) == CHOOSE i \in S : \A j \in S : i <= j

\* the results of the list are those of distinct files, in the order in
\* which discovery hands the files to the processing loop
InDiscoveryOrder(rs) ==
    /\ \A i, j \in 1..Len(rs) : i # j => rs[i].file # rs[j].file
    /\ [i \in 1..Len(rs) |-> rs[i].file] =
            DiscoverChapters({ rs[i].file : i \in 1..Len(rs) }).chapter_files

\* the names on the lines of a report, section after section
LineNames(t) == Concat([k \in 1..Len(t.sections) |->
                    [i \in 1..Len(t.sections[k].lines) |-> t.sections[k].lines[i].name]])

\* C23 as stated: report lines preserve processing order: the build summary
\* lists the units in the order in which they were processed, and a unit's
\* report lists its example results in declaration order.
C23_ProcessingOrder ==
    /\ (s_out # <<>> /\ InDiscoveryOrder(s_results)) =>
            \A k \in 1..Len(s_results) :
                s_out[1].details[k].chapter = s_results[k].chapter
    /\ (r_out # <<>> /\ r_out[1] # <<>>) =>
            LineNames(r_out[1][1]) = [k \in 1..Len(r_results) |-> r_results[k].example.name]

\* C23 as amended: the build summary lists the units in ascending sort key,
\* units of equal key in the order in which they were processed; a unit's
\* report lists its results section by section, the sections in order of
\* first appearance, the results of one section in declaration order, and
\* the failed-example blocks in declaration order.
C23_SortedThenProcessingOrder ==
    /\ s_out # <<>> =>
            LET n == Len(s_results)
                d == s_out[1].details
            IN  \E p \in Perms(n) :
                    /\ \A k \in 1..n : d[k] = DetailLine(s_results[p[k]])
                    /\ \A k, m \in 1..n : k < m =>
                            /\ ~KeyLess(SortKey(s_results[p[m]]), SortKey(s_results[p[k]]))
                            /\ SortKey(s_results[p[k]]) = SortKey(s_results[p[m]])
                                    => p[k] < p[m]
    /\ (r_out # <<>> /\ r_out[1] # <<>>) =>
            LET t == r_out[1][1] IN
            /\ { t.sections[k].section : k \in 1..Len(t.sections) }
                    = { Section(r_results[i].example) : i \in 1..Len(r_results) }
            /\ \A k, m \in 1..Len(t.sections) : k < m =>
                    Least(InSection(t.sections[k].section))
                        < Least(InSection(t.sections[m].section))
            /\ \A k \in 1..Len(t.sections) :
                    LET p == t.sections[k] IN
                    /\ Len(p.lines) = Cardinality(InSection(p.section))
                    /\ \A i \in 1..Len(p.lines) :
                            LET r == r_results[Nth(InSection(p.section), i)] IN
                            /\ p.lines[i].name = r.example.name
                            /\ p.lines[i].ok = r.result.success
            /\ t.failed_examples # <<>> =>
                    /\ Len(t.failed_examples[1]) = Cardinality(Failing)
                    /\ \A i \in 1..Len(t.failed_examples[1]) :
                            t.failed_examples[1][i] = FailedBlock(r_results[Nth(Failing, i)])

\* chapter 2 processed before two results of chapter 1 is listed after them,
\* these two in processing order; and a report whose second result is of
\* another section than the first and the third lists the third before it
C23_Witness ==
    /\ s_out # <<>>
    /\ Len(s_results) = 3
    /\ s_results[1].chapter = Int_(2)
    /\ s_results[2].chapter = Int_(1) /\ s_results[2].success
    /\ s_results[3].chapter = Int_(1) /\ ~s_results[3].success
    /\ s_out[1].details[1].status = "PASS"
    /\ s_out[1].details[2].status = "FAIL"
    /\ s_out[1].details[3].chapter = Int_(2)
    /\ r_out # <<>> /\ r_out[1] # <<>>
    /\ Len(r_results) = 3
    /\ Section(r_results[1].example) = Section(r_results[3].example)
    /\ Section(r_results[1].example) # Section(r_results[2].example)
    /\ r_results[1].example.name # r_results[3].example.name
    /\ LineNames(r_out[1][1]) = <<r_results[1].example.name, r_results[3].example.name,
                                  r_results[2].example.name>>


-----------------------------------------------------------------------------
(* Properties of the rebuild *)

\* the text pages among a set of files
Pages(fs) ==
    { p \in fs : \E f \in source_dir : Content(f).loads /\ p = MarkdownPath(f, Content(f)) }

\* C24: when the build has run twice on unchanged sources into the same
\* output directory, the text pages are those of the first run and every
\* per-unit archive and the whole-build archive have the member sets they
\* had after the first run; each archive path holds one archive, the one
\* written last.
C24_RebuildIdempotent ==
    (pc = "done" /\ first # <<>>) =>
        /\ Pages(files) = Pages(first[1].files)
        /\ zips = first[1].zips
        /\ \A z1, z2 \in zips : z1.path = z2.path => z1 = z2
        /\ \A z \in zips : z.path \in files

\* a chapter with examples rebuilt: its page, its archive and the
\* whole-build archive are there after both runs
C24_Witness ==
    /\ pc = "done" /\ first # <<>>
    /\ F_ch1 \in source_dir
    /\ MarkdownPath(F_ch1, Content(F_ch1)) \in first[1].files
    /\ \E z \in first[1].zips : z.path = ZipPath(Content(F_ch1)) /\ z.members # {}
    /\ \E z \in zips : z.path = <<N_all_zip>> /\ ZipPath(Content(F_ch1)) \in z.members


-----------------------------------------------------------------------------
(* Properties of the timeout *)

\* the interpreter of the harness example was started and the time it takes
\* is known
Timed == "duration" \in DOMAIN v_run /\ Invoked(v_example, v_run.run)

\* C25: an example whose interpreter does not return within 30 seconds ends
\* with a Timeout result: validating it terminates without an exception, the
\* result is recorded and counts as one failed example, and the interpreter
\* process is not running afterwards; an interpreter that returns in time is
\* never recorded as a timeout.
C25_TimeoutRecorded ==
    (v_out # <<>> /\ Timed) =>
        LET entry == [example |-> v_example, result |-> v_out[1].result]
            c     == CountValidations(<<entry>>, [total |-> 0, passed |-> 0, failed |-> 0])
        IN  /\ v_proc # "running"
            /\ ~v_out[1].raised
            /\ IF v_run.duration > TimeoutSeconds
               THEN /\ Outcome(v_out[1].result) = "Timeout"
                    /\ ~v_out[1].result.success
                    /\ c.total = 1 /\ c.failed = 1
                    /\ v_proc = "killed"
               ELSE /\ Outcome(v_out[1].result) # "Timeout"
                    /\ v_proc = "exited"

\* an interpreter that takes 31 seconds on an example with input and flags
C25_Witness ==
    /\ v_out # <<>> /\ Timed
    /\ v_run.duration = 31
    /\ HasInput(v_example) = "yes"
    /\ v_example.cli_flags # <<>>
    /\ Outcome(v_out[1].result) = "Timeout"
    /\ v_proc = "killed"


-----------------------------------------------------------------------------
(* Properties of the directory names *)

LowerAlnum ==
    { Alphabet[i] : i \in Ord("0")..Ord("9") } \cup { Alphabet[i] : i \in Ord("a")..Ord("z") }

Alnum == LowerAlnum \cup { Alphabet[i] : i \in Ord("A")..Ord("Z") }

RECURSIVE Slug(_, _)
\* the slug of a text: letters lower-cased, every run of spaces and hyphens
\* one separator, every other character that is neither alphanumeric nor
\* the separator removed;
\* `sep` tells that the character before was a space or hyphen
Slug(t, sep) ==
    IF t = <<>> THEN <<>>
    ELSE IF Head(t) \in {" ", "-"}
        THEN (IF sep THEN <<>> ELSE <<"_">>) \o Slug(Tail(t), TRUE)
    ELSE IF Head(t) \in Alnum \cup {"_"} THEN <<Lower(Head(t))>> \o Slug(Tail(t), FALSE)
    ELSE Slug(Tail(t), FALSE)

\* kind and identifier in front of the title slug
KindAndId(u) ==
    IF u.is_appendix
    THEN <<"a", "p", "p", "e", "n", "d", "i", "x", "_">> \o <<Lower(u.letter[1])>> \o <<"_">>
    ELSE <<"c", "h">> \o TwoDigits(u.number) \o <<"_">>

\* C26: the directory of a packaged unit is named by its kind, its
\* identifier and the slug of its title, the leaf directory of each of its
\* examples by the slug of the example's name, and every component of every
\* directory made consists of lower-case alphanumerics and the separator.
C26_DirectoryNames ==
    /\ \A f \in source_dir :
            LET u == Content(f) IN
            (u.loads /\ ~u.is_appendix /\ ZipPath(u) \in files) =>
                LET name == KindAndId(u) \o Slug(u.title, FALSE) IN
                /\ <<N_code, name>> \in dirs
                /\ \A i \in 1..Len(u.examples) :
                        <<N_code, name, Section(u.examples[i]),
                          Slug(u.examples[i].name, FALSE)>> \in dirs
    /\ \A d \in dirs : \A i \in 1..Len(d) : Range(d[i]) \subseteq LowerAlnum \cup {"_"}


-----------------------------------------------------------------------------
(* Properties of validate_all_examples *)

AllPassed(ers) == \A i \in 1..Len(ers) : ers[i].result.success

\* C27: when validate_all_examples returns it has appended one result per
\* example, in declaration order, and returns true exactly when every result
\* is a success; for a unit without examples it records nothing and returns
\* true.  The value returned is the `success` of the unit's build result.
C27_ValidateAll ==
    /\ (pc = "units" /\ validate /\ upc = "report") =>
            /\ Len(example_results) = NumExamples(CurUnit)
            /\ \A i \in 1..Len(example_results) :
                    example_results[i].example = CurUnit.examples[i]
            /\ unit_success = AllPassed(example_results)
            /\ NumExamples(CurUnit) = 0 => (example_results = <<>> /\ unit_success)
    /\ \A i \in 1..Len(results) :
            (validate /\ ~IsError(results[i])) =>
                /\ results[i].validation_results # <<>>
                /\ results[i].success = AllPassed(results[i].validation_results[1])

\* two examples validated, the first failed and the second passed: false
C27_Witness ==
    /\ pc = "units" /\ validate /\ upc = "report"
    /\ Len(example_results) = 2
    /\ ~example_results[1].result.success
    /\ example_results[2].result.success
    /\ ~unit_success


-----------------------------------------------------------------------------
(* Properties of a unit that fails after its validation *)

\* the unit of result r had examples validated before it raised
FailedAfterValidation(r) ==
    /\ IsError(r)
    /\ validate
    /\ Loaded(r.file)
    /\ NumExamples(Content(r.file)) > 0

RECURSIVE SumOver(_, _)
SumOver(rs, n) ==
    IF rs = <<>> THEN n
    ELSE SumOver(Tail(rs),
                 n + (IF IsError(Head(rs)) THEN 0
                      ELSE Len(ValidationResults(Head(rs)))))

\* C28: a unit that raises after its examples were validated has a build
\* result with the error and without validation results: the example counts
\* of the build summary are those of the other units alone, and the unit's
\* line shows the error and no examples ratio.
C28_FailedUnitNotCounted ==
    pc = "done" =>
        LET b == BuildSummary(results) IN
        /\ \A i \in 1..Len(results) :
                FailedAfterValidation(results[i]) =>
                    /\ "validation_results" \notin DOMAIN results[i]
                    /\ \E k \in 1..Len(b.details) :
                            /\ b.details[k].chapter = results[i].chapter
                            /\ b.details[k].detail.kind = "Error"
                            /\ b.details[k].detail.text = results[i].error
                    /\ \A k \in 1..Len(b.details) :
                            b.details[k].chapter = results[i].chapter
                                => b.details[k].detail.kind # "Examples"
        /\ IF b.examples = <<>> THEN SumOver(results, 0) = 0
           ELSE b.examples[1].total = SumOver(results, 0)

\* a validated chapter with two examples failed in packaging, next to a unit
\* whose examples are counted
C28_Witness ==
    /\ pc = "done"
    /\ validate
    /\ fault = <<F_ch1, "package">>
    /\ \E i \in 1..Len(results) :
            /\ results[i].file = F_ch1
            /\ FailedAfterValidation(results[i])
    /\ BuildSummary(results).examples # <<>>
    /\ BuildSummary(results).examples[1].total = 1


-----------------------------------------------------------------------------
(* Properties of the order of the steps of one unit *)

StepRank(op) ==
    CASE op = "load" -> 0 [] op = "report" -> 1 [] op = "markdown" -> 2
      [] op = "package" -> 3 [] OTHER -> 4

\* the steps logged for one file are in the fixed order, each at most once
StepsInOrder(lg) ==
    \A i, j \in 1..Len(lg) :
        (i < j /\ lg[i].file = lg[j].file /\ StepRank(lg[i].op) < 4
               /\ StepRank(lg[j].op) < 4)
            => StepRank(lg[i].op) < StepRank(lg[j].op)

\* C29: within one unit the steps come in the order validate, test report,
\* text page, package and archive; when a step raises, everything written
\* before stays (nothing is rolled back), no later step runs for the unit,
\* and the unit is recorded as failed.
C29_StepOrder ==
    [][pc = "units" =>
        /\ files \subseteq files'
        /\ dirs \subseteq dirs'
        /\ \A z \in zips : \E y \in zips' : y.path = z.path
        /\ StepsInOrder(log')
        /\ (cur' = cur /\ upc' # upc) =>
                CASE upc = "load"     -> upc' = (IF validate THEN "validate" ELSE "markdown")
                  [] upc = "validate" -> upc' = "report"
                  [] upc = "report"   -> upc' = "markdown"
                  [] upc = "markdown" -> upc' = "save"
                  [] OTHER            -> FALSE
        /\ Len(results') # Len(results) =>
                LET r == results'[Len(results')] IN
                /\ results' = Append(results, r)
                /\ r.file = CurFile
                /\ cur' = cur + 1
                /\ upc' = "load"
                /\ IsError(r) =>
                    /\ ~r.success
                    /\ upc # "save" => <<N_code, DirName(CurUnit)>> \notin dirs'
                    /\ upc \in {"load", "validate", "report"} =>
                            MarkdownPath(CurFile, CurUnit) \notin files'
                    /\ (upc \in {"markdown", "save"} /\ example_results # <<>>) =>
                            ReportPath(CurUnit) \in files'
                    /\ upc = "save" => MarkdownPath(CurFile, CurUnit) \in files'
      ]_vars

\* chapter 1 validated and reported, then failed on writing its page: the
\* report is there, the page and the example directory are not
C29_Witness ==
    /\ validate
    /\ fault = <<F_ch1, "markdown">>
    /\ \E i \in 1..Len(results) :
            /\ results[i].file = F_ch1 /\ IsError(results[i]) /\ ~results[i].success
    /\ ReportPath(Content(F_ch1)) \in files
    /\ MarkdownPath(F_ch1, Content(F_ch1)) \notin files
    /\ <<N_code, DirName(Content(F_ch1))>> \notin dirs
    /\ \A k \in 1..Len(log) : log[k].file = F_ch1 => log[k].op \in {"load", "report"}


-----------------------------------------------------------------------------
(* Properties of the single-chapter entry point *)

\* the unit file given on the command line
MFile == chapter_files[1]

\* C30: run on a unit file that loads, without I/O faults: when validation is
\* requested and an example fails, the test report is written and the exit
\* code is 1, with no text page and no packaged examples; otherwise the text
\* page is written, the examples are packaged exactly when packaging is
\* requested, and the exit code is 0.
C30_SingleChapterMain ==
    (pc = "done" /\ Loaded(MFile) /\ fault = <<>>) =>
        LET u == Content(MFile) IN
        IF validate /\ ~AllPassed(example_results)
        THEN /\ exit_code = 1
             /\ \E p \in files : IsReport(p)
             /\ MarkdownPath(MFile, u) \notin files
             /\ dirs = {} /\ zips = {}
        ELSE /\ exit_code = 0
             /\ MarkdownPath(MFile, u) \in files
             /\ ~generate_examples => (dirs = {} /\ zips = {})
             /\ (generate_examples /\ NumExamples(u) > 0) =>
                    /\ <<N_code, DirName(u)>> \in dirs
                    /\ zips # {}










=============================================================================
